---- MODULE Spec2Model ----
(***************************************************************************)
(* Verification model of the DIBBS solicitations scraper.                  *)
(*                                                                         *)
(* The module holds one state machine per component of the program:        *)
(*   - the paginated RFQ crawl (solicitations.py dibbs_solicitations,      *)
(*     combined.py dibbs_solicitations_scrape, historical_scraper.py       *)
(*     scrape_historical_web_data),                                        *)
(*   - session establishment (dibbs_session and its variants),             *)
(*   - process_date / process_date_range of combined.py,                   *)
(*   - merge_data_sources of combined.py.                                  *)
(* Each component has its own specification; the variables of the other    *)
(* components stay at their initial values under it.                       *)
(***************************************************************************)
EXTENDS Integers, Sequences, FiniteSets, TLC

(***************************************************************************)
(* Bounds of the model                                                     *)
(***************************************************************************)
\* largest total-record count a first page declares
MaxCount == 3
\* largest number of data rows on one result page
MaxPageRows == 2
\* largest caller-supplied row cap (max_records)
MaxCap == 2

(***************************************************************************)
(* Generic helpers                                                         *)
(***************************************************************************)
Min(a, b) == IF a <= b THEN a ELSE b

Max(a, b) == IF a >= b THEN a ELSE b

\* Python's seq[:n] for n >= 0
Prefix(seq, n) == SubSeq(seq, 1, Min(n, Len(seq)))

(***************************************************************************)
(* The paginated RFQ crawl                                                 *)
(***************************************************************************)
VARIABLES
    crawler,      \* which implementation runs: "solicitations", "historical"
                  \* or "awards" (dibbs_awards of dibbs.py)
    test_mode,    \* the test_mode argument / self.test_mode
    max_records,  \* the row cap; 0 stands for None (both are falsy in the code)
    cpc,          \* position: "begin", "first", "loop", "returned", "raised"
    number,       \* page counter
    rows,         \* accumulated rows; a row is the number of the page it came from
    rows_more,    \* rows of the page parsed last
    count,        \* declared total-record count of the first page
    form_data,    \* hidden-field state parsed from the page fetched last
    requests,     \* the page requests issued so far, in order
    fetched,      \* number of pages received and parsed
    first_rows,   \* number of rows the first page carried
    error,        \* "none", or the request that failed: "session", "get",
                  \* "post", or "KeyError" for a del of a missing form field
    result,      \* the rows returned to the caller when cpc = "returned"
    slept        \* for each time.sleep of the crawl, the requests issued before it

crawlVars == <<crawler, test_mode, max_records, cpc, number, rows, rows_more,
               count, form_data, requests, fetched, first_rows, error, result,
               slept>>

(***************************************************************************)
(* State of session establishment                                          *)
(***************************************************************************)
VARIABLES
    s_impl,     \* which dibbs_session runs: "solicitations", "awards",
                \* "rfq_downloader" or "local"
    spc,        \* position: "idle", "get", "post", "returned", "raised"
    attempt,    \* loop variable of "for attempt in range(max_retries)"
    landing,    \* the landing page received last
    s_form,     \* (form_data, form_action) parsed from it
    posted,     \* the POSTs issued, in order: [url, data]
    sleeps,     \* the delays slept, in order
    s_exc       \* the exception that left the function, "none" if none

sessVars == <<s_impl, spc, attempt, landing, s_form, posted, sleeps, s_exc>>

(***************************************************************************)
(* State of process_date and process_date_range                            *)
(***************************************************************************)
VARIABLES
    ppc,          \* position in process_date
    results,      \* the results record of process_date
    is_today,     \* local is_today: "unbound" until line 880 assigns it,
                  \* then "true" or "false"
    existing_solicitations, \* "unbound", then "empty" or "nonempty"
    n_web,        \* len(web_data), after the filter of new rows
    n_in,         \* len(in_data)
    n_bq,         \* len(bq_data)
    n_as,         \* len(as_data)
    contents,     \* which of in_content, bq_content, as_content are in results
    merged_data,  \* number of merged solicitations
    load_mode,    \* disposition json_to_table was entered with: "none",
                  \* "append", "replace"
    failures,     \* the failures met so far in this process_date call
    rpc,          \* position in process_date_range
    current_date, \* the date being processed, 1..NumDates
    all_results   \* results collected by process_date_range

pdVars == <<ppc, results, is_today, existing_solicitations, n_web, n_in,
            n_bq, n_as, contents, merged_data, load_mode, failures,
            rpc, current_date, all_results>>

(***************************************************************************)
(* State of merge_data_sources.  The four input lists are read row by row; *)
(* the part of each list read so far is kept.                              *)
(***************************************************************************)
VARIABLES
    mpc,           \* the pass that ran last: "idle", "bq", "web", "in", "done"
    solicitations, \* the dict solicitations, as the list of its values in
                   \* insertion order; the key of a value is its
                   \* solicitation_number
    bq_lookup,     \* the items of bq_lookup handled so far: [key, records]
    web_data,      \* the web rows handled so far
    in_data,       \* the index records handled so far
    as_data,       \* the approved-source records
    debug_stats,   \* the debug counters
    merged         \* the list returned when mpc = "done"

mergeVars == <<mpc, solicitations, bq_lookup, web_data, in_data, as_data,
               debug_stats, merged>>

(***************************************************************************)
(* State of the file parsers (index, approved-source and batch-quote       *)
(* files).  A file is read line by line; the lines read so far are kept.   *)
(***************************************************************************)
VARIABLES
    f_kind,     \* the file parsed: "in", "as" or "bq"
    f_impl,     \* the parser that runs: "combined" (combined.py, and
                \* file_processor.py which parses alike) or "local"
                \* (dibbs_local_scraper.py process_in_file)
    fpc,        \* position: "idle", "lines", "returned"
    f_lines,    \* the lines read so far, as the file holds them
    f_parts,    \* for each line read, the list parts its tokenizer built
                \* (empty for a line the parser does not tokenize)
    f_out,      \* for each line read, the position of its record in
                \* f_records, 0 if the line gave none
    f_records   \* the list of records appended so far, then returned

parseVars == <<f_kind, f_impl, fpc, f_lines, f_parts, f_out, f_records>>

(***************************************************************************)
(* State of RfqRecsParser, the parser of the result table of a page: its   *)
(* attributes, and the tags of the page fed to it so far.                  *)
(***************************************************************************)
VARIABLES
    hpc,                   \* position: "idle", "feed", "returned"
    inside_tr,             \* self.inside_tr
    inside_td,             \* self.inside_td
    td_count,              \* self.td_count
    inside_a,              \* self.inside_a
    current_link_href,     \* self.current_link_href
    current_link_text,     \* self.current_link_text
    td_content,            \* self.td_content
    collecting_tech_docs,  \* self.collecting_tech_docs
    current_tech_doc,      \* self.current_tech_doc: <<>> for {}, else <<doc>>
    self_row,              \* self.row
    self_rows,             \* self.rows
    h_at,                  \* the element the page is inside of: "top", "tr",
                           \* "td" or "a"
    h_trs,                 \* number of <tr> tags fed
    h_col,                 \* number of <td> tags fed since the last <tr>
    h_anchors,             \* number of <a> tags fed
    h_texts,               \* number of texts fed
    h_cells,               \* the anchors fed since the last <tr>, by column
    inside_count,          \* self.inside_count
    self_records,          \* self.records
    h_counted,             \* the record-count element has been fed
    h_shown                \* the texts fed inside the record-count element
                           \* that is open

htmlVars == <<hpc, inside_tr, inside_td, td_count, inside_a, current_link_href,
              current_link_text, td_content, collecting_tech_docs,
              current_tech_doc, self_row, self_rows, h_at, h_trs, h_col, h_anchors,
              h_texts, h_cells, inside_count, self_records, h_counted, h_shown>>

countVars == <<inside_count, self_records, h_counted, h_shown>>

(***************************************************************************)
(* State of DIBBSDownloader: its two sessions, one call of download_file   *)
(* and the file at its output path.  A session is the number of the        *)
(* requests.Session made for it, 0 for None.                               *)
(***************************************************************************)
VARIABLES
    dpc,             \* position: "idle", "call", "loop", "returned", "raised",
                     \* "skipped"
    d_host,          \* the host of the url: "dibbs" or "dibbs2"
    d_ext,           \* the ending of output_path: "zip", "txt", "html"
    d_attempt,       \* attempt of "for attempt in range(max_retries)"
    session_dibbs,   \* self.session_dibbs
    session_dibbs2,  \* self.session_dibbs2
    d_session,       \* the local session of download_file
    d_created,       \* number of sessions made so far
    d_file,          \* the file at output_path: "none" or its content
    d_ret,           \* the value download_file returned: "none", "True", "False"
    d_gets,          \* the requests of the call: the session of each, and the
                     \* session made after its response, 0 for none
    d_sleeps,        \* the arguments of time.sleep, in order
    d_runs           \* calls of download_file for the path so far

dlVars == <<dpc, d_host, d_ext, d_attempt, session_dibbs, session_dibbs2,
            d_session, d_created, d_file, d_ret, d_gets, d_sleeps, d_runs>>


(***************************************************************************)
(* State of merge_historical_data of historical_scraper.py: the items of   *)
(* batch_data and the rows of web_data read so far, and the values of its  *)
(* dict solicitations in insertion order.                                  *)
(***************************************************************************)
VARIABLES
    hmpc,                \* position: "idle", "start", "batch", "web", "done"
    batch_data,          \* the items (key, records) read so far, in dict order
    hist_web_data,       \* the rows of web_data read so far
    hist_solicitations   \* the values of the dict solicitations

histVars == <<hmpc, batch_data, hist_web_data, hist_solicitations>>


vars == <<crawlVars, sessVars, pdVars, mergeVars, parseVars, htmlVars, dlVars, histVars>>

nonCrawl == <<sessVars, pdVars, mergeVars, parseVars, htmlVars, dlVars, histVars>>

nonSess == <<crawlVars, pdVars, mergeVars, parseVars, htmlVars, dlVars, histVars>>

nonPd == <<crawlVars, sessVars, mergeVars, parseVars, htmlVars, dlVars, histVars>>

nonMerge == <<crawlVars, sessVars, pdVars, parseVars, htmlVars, dlVars, histVars>>

nonHtml == <<crawlVars, sessVars, pdVars, mergeVars, parseVars, dlVars, histVars>>

nonDl == <<crawlVars, sessVars, pdVars, mergeVars, parseVars, htmlVars, histVars>>

nonHist == <<crawlVars, sessVars, pdVars, mergeVars, parseVars, htmlVars, dlVars>>

nonParse == <<crawlVars, sessVars, pdVars, mergeVars, htmlVars, dlVars, histVars>>

\* the columns of the result table in which the pages of the model carry
\* anchors: the item number, the technical documents, the solicitation
AnchorColumns == {1, 4, 5}

\* "self.row = {...}" at the <tr> of a data row; a text is the list of its
\* words
NewRow ==
    [item_number |-> <<>>, nsn_part_number |-> <<>>, nomenclature |-> <<>>,
     technical_documents |-> <<>>, solicitation |-> <<>>,
     solicitation_url |-> "", setaside_type |-> <<>>,
     rfq_quote_status |-> <<>>, purchase_request |-> <<>>, pr_number |-> <<>>,
     quantity |-> <<>>, issued |-> <<>>, return_by |-> <<>>]

\* "self.row = {}"
EmptyRow == [field \in {} |-> <<>>]

\* the attributes RfqRecsParser.__init__ sets, before any tag is fed
HtmlLocalsInit ==
    /\ inside_tr = FALSE
    /\ inside_td = FALSE
    /\ td_count = 0
    /\ inside_a = FALSE
    /\ current_link_href = "None"
    /\ current_link_text = <<>>
    /\ td_content = <<>>
    /\ collecting_tech_docs = FALSE
    /\ current_tech_doc = <<>>
    /\ self_row = EmptyRow
    /\ self_rows = <<>>
    /\ h_at = "top"
    /\ h_trs = 0
    /\ h_col = 0
    /\ h_anchors = 0
    /\ h_texts = 0
    /\ h_cells = [c \in AnchorColumns |-> <<>>]
    /\ inside_count = FALSE
    /\ self_records = 0
    /\ h_counted = FALSE
    /\ h_shown = <<>>

\* the historical merge at rest
HistIdle ==
    /\ hmpc = "idle"
    /\ batch_data = <<>>
    /\ hist_web_data = <<>>
    /\ hist_solicitations = <<>>

\* the downloader at rest
DlIdle ==
    /\ dpc = "idle"
    /\ d_host = "dibbs"
    /\ d_ext = "zip"
    /\ d_attempt = 0
    /\ session_dibbs = 0
    /\ session_dibbs2 = 0
    /\ d_session = 0
    /\ d_created = 0
    /\ d_file = "none"
    /\ d_ret = "none"
    /\ d_gets = <<>>
    /\ d_sleeps = <<>>
    /\ d_runs = 0

\* the table parser at rest
HtmlIdle ==
    /\ hpc = "idle"
    /\ HtmlLocalsInit

\* the locals of a parser before its first line
ParseLocalsInit ==
    /\ f_lines = <<>>
    /\ f_parts = <<>>
    /\ f_out = <<>>
    /\ f_records = <<>>

\* the parsers at rest
ParseIdle ==
    /\ f_kind = "in"
    /\ f_impl = "combined"
    /\ fpc = "idle"
    /\ ParseLocalsInit

\* debug_stats as merge_data_sources creates it
NewDebugStats ==
    [web_solicitations |-> {}, bq_solicitations |-> {},
     matched_solicitations |-> {}, web_only |-> {}, bq_only |-> {}]

\* the locals of merge_data_sources before its first pass
MergeLocalsInit ==
    /\ solicitations = <<>>
    /\ bq_lookup = <<>>
    /\ web_data = <<>>
    /\ in_data = <<>>
    /\ as_data = <<>>
    /\ debug_stats = NewDebugStats
    /\ merged = <<>>

\* merge_data_sources at rest
MergeIdle ==
    /\ mpc = "idle"
    /\ MergeLocalsInit

\* the crawl at rest
CrawlIdle ==
    /\ crawler = "solicitations"
    /\ test_mode = FALSE
    /\ max_records = 0
    /\ cpc = "idle"
    /\ number = 1
    /\ rows = <<>>
    /\ rows_more = <<>>
    /\ count = 0
    /\ form_data = <<>>
    /\ requests = <<>>
    /\ fetched = 0
    /\ first_rows = 0
    /\ error = "none"
    /\ result = <<>>
    /\ slept = <<>>

NoPage == [has_form |-> FALSE, has_attrs |-> FALSE, action |-> "", inputs |-> {}]

NoForm == [data |-> <<>>, action |-> ""]

\* session establishment at rest
SessIdle ==
    /\ s_impl = "solicitations"
    /\ spc = "idle"
    /\ attempt = 0
    /\ landing = NoPage
    /\ s_form = NoForm
    /\ posted = <<>>
    /\ sleeps = <<>>
    /\ s_exc = "none"

\* "results = {...}" at the head of process_date
NewResults ==
    [success |-> FALSE, solicitations_count |-> 0, files_uploaded |-> 0,
     bigquery_loaded |-> FALSE, warnings |-> <<>>]

\* the locals of process_date before its first statement
PdLocalsInit ==
    /\ results = NewResults
    /\ is_today = "unbound"
    /\ existing_solicitations = "unbound"
    /\ n_web = 0
    /\ n_in = 0
    /\ n_bq = 0
    /\ n_as = 0
    /\ contents = {}
    /\ merged_data = 0
    /\ load_mode = "none"
    /\ failures = {}

\* process_date at rest
PdIdle ==
    /\ ppc = "idle"
    /\ PdLocalsInit
    /\ rpc = "idle"
    /\ current_date = 1
    /\ all_results = <<>>

\* test limit of the historical scraper (max_records = 30 if self.test_mode)
HistTestLimit == 30

\* names of the form fields the crawl touches
EVENTTARGET == "__EVENTTARGET"

EVENTARGUMENT == "__EVENTARGUMENT"

VIEWSTATE == "__VIEWSTATE"

NavFields == {"ctl00$ddlNavigation", "ctl00$ddlGotoDB", "ctl00$txtValue"}

ButtonFields == {"ctl00$butNavigation", "ctl00$butDbSearch"}

\* the results grid each crawl names as event target
GridName(c) ==
    IF c = "awards" THEN "ctl00$cph1$grdAwardSearch" ELSE "ctl00$cph1$grdRfqSearch"

\* FormParser.parse applied to result page n whose form carries the button
\* inputs in buttons: every <input> with a name and a value becomes a field.
\* The page's view state identifies the response it came from.
ParsedForm(n, buttons) ==
    [f \in {VIEWSTATE, EVENTTARGET, EVENTARGUMENT} \cup buttons |->
        IF f = VIEWSTATE THEN <<"page", n>>
        ELSE IF f \in ButtonFields THEN <<"button">>
        ELSE <<>>]

\* f'Page${number}'
PageArg(n) == <<"Page$", n>>

\* the event target, the event argument and the cleared selectors written
\* into the form state before the POST of page n
SetControls(fd, n) ==
    [f \in DOMAIN fd \cup {EVENTTARGET, EVENTARGUMENT} \cup NavFields |->
        IF f = EVENTTARGET THEN <<GridName(crawler)>>
        ELSE IF f = EVENTARGUMENT THEN PageArg(n)
        ELSE IF f \in NavFields THEN <<>>
        ELSE fd[f]]

\* a mutation that starts from the form of the first page instead of the
\* form parsed last
MutateFormOfFirstPage(fd, n) ==
    LET withControls == SetControls(ParsedForm(1, {}), n)
    IN  [f \in DOMAIN withControls \ ButtonFields |-> withControls[f]]

\* The mutation of the form state before the POST of page n
MutateForm(fd, n) ==
    LET withControls == SetControls(fd, n)
    IN  [f \in DOMAIN withControls \ ButtonFields |-> withControls[f]]

\* dibbs_awards deletes the two buttons without testing for them: the del
\* of a button the parsed form lacks raises KeyError
DelRaises(c, fd) == c = "awards" /\ ~(ButtonFields \subseteq DOMAIN fd)

\* the form state the raising del leaves: the first button is deleted
\* when it is the second that is missing
FormAtKeyError(fd, n) ==
    LET withControls == SetControls(fd, n)
    IN  [f \in DOMAIN withControls \ {"ctl00$butNavigation"} |-> withControls[f]]

\* "test_mode and max_records and len(rows) >= max_records"
CapReached(tm, cap, rs) == tm /\ cap # 0 /\ Len(rs) >= cap

\* a loop test that leaves out the rows of the page parsed last
LoopCondNoZeroStop(rs, cnt, more) == Len(rs) < cnt

\* a loop test that leaves out the declared count
LoopCondNoCount(rs, cnt, more) == Len(more) > 0

\* "while len(rows) < count and len(rows_more) > 0"
LoopCond(rs, cnt, more) == Len(rs) < cnt /\ Len(more) > 0

\* rows of page n: k rows, each tagged with its page
PageRows(n, k) == [i \in 1..k |-> n]

\* What follows a parsed page: the while test, then the cap test at the top
\* of the loop body, else the plain "return rows" after the loop.
AfterPage(rs, cnt, more) ==
    IF LoopCond(rs, cnt, more)
    THEN IF CapReached(test_mode, max_records, rs)
         THEN /\ cpc' = "returned"
              /\ result' = Prefix(rs, max_records)
         ELSE /\ cpc' = "loop"
              /\ result' = result
    ELSE /\ cpc' = "returned"
         /\ result' = rs

CrawlInit ==
    /\ crawler \in {"solicitations", "historical", "awards"}
    /\ test_mode \in BOOLEAN
    /\ crawler = "awards" => ~test_mode
    /\ IF crawler = "historical"
       THEN max_records = (IF test_mode THEN HistTestLimit ELSE 0)
       ELSE IF crawler = "awards" THEN max_records = 0
       ELSE max_records \in 0..MaxCap
    /\ cpc = "begin"
    /\ number = 1
    /\ rows = <<>>
    /\ rows_more = <<>>
    /\ count = 0
    /\ form_data = <<>>
    /\ requests = <<>>
    /\ fetched = 0
    /\ first_rows = 0
    /\ error = "none"
    /\ result = <<>>
    /\ slept = <<>>
    /\ SessIdle
    /\ PdIdle
    /\ MergeIdle
    /\ ParseIdle
    /\ HtmlIdle
    /\ DlIdle
    /\ HistIdle

\* dibbs_session(DIBBS_HOST) at the head of dibbs_solicitations; the
\* historical scraper reuses the session made by its constructor.
CrawlSession ==
    /\ cpc = "begin"
    /\ cpc' = "first"
    /\ UNCHANGED <<slept, crawler, test_mode, max_records, number, rows, rows_more,
                   count, form_data, requests, fetched, first_rows, error, result>>
    /\ UNCHANGED nonCrawl

CrawlSessionFails ==
    /\ cpc = "begin"
    /\ crawler # "historical"
    /\ cpc' = "raised"
    /\ error' = "session"
    /\ UNCHANGED <<slept, crawler, test_mode, max_records, number, rows, rows_more,
                   count, form_data, requests, fetched, first_rows, result>>
    /\ UNCHANGED nonCrawl

\* GET of the first page, answered with a page of k rows declaring cnt records
GetFirstPage ==
    /\ cpc = "first"
    /\ \E k \in 0..MaxPageRows, cnt \in 0..MaxCount, buttons \in SUBSET ButtonFields :
         LET more == PageRows(1, k)
             rs == rows \o more
         IN  /\ requests' = Append(requests, [method |-> "GET", data |-> <<>>])
             /\ form_data' = ParsedForm(1, buttons)
             /\ count' = cnt
             /\ rows_more' = more
             /\ rows' = rs
             /\ fetched' = 1
             /\ first_rows' = k
             /\ IF CapReached(test_mode, max_records, rs)
                THEN /\ cpc' = "returned"
                     /\ result' = Prefix(rs, max_records)
                ELSE AfterPage(rs, cnt, more)
    /\ UNCHANGED <<slept, crawler, test_mode, max_records, number, error>>
    /\ UNCHANGED nonCrawl

\* the GET raises: dibbs_solicitations lets it propagate, the historical
\* scraper's try/except returns []
GetFirstPageFails ==
    /\ cpc = "first"
    /\ requests' = Append(requests, [method |-> "GET", data |-> <<>>])
    /\ error' = "get"
    /\ IF crawler = "historical"
       THEN cpc' = "returned" /\ result' = <<>>
       ELSE cpc' = "raised" /\ result' = result
    /\ UNCHANGED <<slept, crawler, test_mode, max_records, number, rows, rows_more,
                   count, form_data, fetched, first_rows>>
    /\ UNCHANGED nonCrawl

\* one iteration of the loop whose POST is answered with a page of k rows
PostNextPage ==
    /\ cpc = "loop"
    /\ ~DelRaises(crawler, form_data)
    /\ \E k \in 0..MaxPageRows, buttons \in SUBSET ButtonFields :
         LET n == number + 1
             sent == MutateForm(form_data, n)
             more == PageRows(n, k)
             rs == rows \o more
         IN  /\ number' = n
             /\ requests' = Append(requests, [method |-> "POST", data |-> sent])
             /\ form_data' = ParsedForm(n, buttons)
             /\ rows_more' = more
             /\ rows' = rs
             /\ fetched' = fetched + 1
             /\ AfterPage(rs, count, more)
    /\ UNCHANGED <<slept, crawler, test_mode, max_records, count, first_rows, error>>
    /\ UNCHANGED nonCrawl

\* one iteration of the loop whose POST raises
PostNextPageFails ==
    /\ cpc = "loop"
    /\ ~DelRaises(crawler, form_data)
    /\ number' = number + 1
    /\ requests' = Append(requests,
                      [method |-> "POST", data |-> MutateForm(form_data, number + 1)])
    /\ form_data' = MutateForm(form_data, number + 1)
    /\ error' = "post"
    /\ IF crawler = "historical"
       THEN cpc' = "returned" /\ result' = <<>>
       ELSE cpc' = "raised" /\ result' = result
    /\ UNCHANGED <<slept, crawler, test_mode, max_records, rows, rows_more, count,
                   fetched, first_rows>>
    /\ UNCHANGED nonCrawl

\* one iteration of the loop of dibbs_awards whose del of a button raises
\* KeyError before the POST is issued
PostNextPageKeyError ==
    /\ cpc = "loop"
    /\ DelRaises(crawler, form_data)
    /\ number' = number + 1
    /\ form_data' = FormAtKeyError(form_data, number + 1)
    /\ error' = "KeyError"
    /\ cpc' = "raised"
    /\ UNCHANGED <<slept, crawler, test_mode, max_records, rows, rows_more, count,
                   requests, fetched, first_rows, result>>
    /\ UNCHANGED nonCrawl

CrawlNext ==
    \/ CrawlSession
    \/ CrawlSessionFails
    \/ GetFirstPage
    \/ GetFirstPageFails
    \/ PostNextPage
    \/ PostNextPageFails
    \/ PostNextPageKeyError

SpecCrawl == CrawlInit /\ [][CrawlNext]_vars

(***************************************************************************)
(* Claims about the crawl                                                  *)
(***************************************************************************)
\* the page parsed last carried no data row
ZeroRowPage == fetched >= 1 /\ rows_more = <<>>

NumPosts == Cardinality({i \in DOMAIN requests : requests[i].method = "POST"})

\* C3: once a fetched page yields zero rows, no further page request is
\* issued in that crawl, even when the accumulated rows are below the count.
C3_NoRequestAfterEmptyPage == [][ZeroRowPage => requests' = requests]_vars

\* a POSTed page came back empty while the declared count was not reached
C3_Witness ==
    /\ ZeroRowPage
    /\ fetched >= 2
    /\ Len(rows) < count
    /\ cpc = "returned"

\* C4 as stated: the number of POSTs is at most count minus the rows of the
\* first page.
C4_PostsAtMostCountMinusFirst ==
    fetched >= 1 => NumPosts <= count - first_rows

\* C4 amended: the loop goes on only after a page that added a row, and the
\* number of POSTs is at most max(0, count - rows of the first page).
C4_PostBound ==
    /\ cpc = "loop" => rows_more # <<>>
    /\ fetched >= 1 => NumPosts <= Max(0, count - first_rows)

\* the bound is met with equality after more than one POST
C4_Witness ==
    /\ cpc = "returned"
    /\ NumPosts >= 2
    /\ NumPosts = count - first_rows

\* C5: in bounded mode with row cap N the crawl returns at most N rows.
C5_AtMostCapRows ==
    (cpc = "returned" /\ test_mode /\ max_records # 0)
        => Len(result) <= max_records

\* C6: when a page request fails in mid-crawl, the rows collected from the
\* earlier pages are returned as a partial result and nothing is raised.
C6_PartialResultOnFailure ==
    error = "post" => (cpc = "returned" /\ result = rows)

\* the i-th page request is the POST for page i as the claim describes it
IsPagePost(i) ==
    LET sent == requests[i].data
    IN  /\ requests[i].method = "POST"
        /\ {EVENTTARGET, EVENTARGUMENT} \cup NavFields \subseteq DOMAIN sent
        /\ sent[EVENTTARGET] = <<GridName(crawler)>>
        /\ sent[EVENTARGUMENT] = <<"Page$", i>>
        /\ \A f \in NavFields : sent[f] = <<>>
        /\ DOMAIN sent \cap ButtonFields = {}

\* C22: every page request after the first is a POST whose event target
\* names the results grid, whose event argument is Page$n with n = 2, 3, ...
\* growing by one per request, whose three navigation selectors are empty
\* and which carries neither button field; a parsed form without a button
\* field is not an error.
C22_PagePostFields ==
    /\ \A i \in 2..Len(requests) : IsPagePost(i)
    /\ error # "KeyError"

\* the fields the crawl writes itself before a POST
ControlFields == {EVENTTARGET, EVENTARGUMENT} \cup NavFields

\* a page request is issued: every earlier request has been answered and
\* its page parsed, and a POST carries, apart from the control fields, the
\* fields parsed from the page received last
SequentialRequest ==
    LET sent == requests'[Len(requests')].data
    IN  /\ fetched = Len(requests)
        /\ error = "none"
        /\ Len(requests) >= 1 =>
             /\ form_data[VIEWSTATE] = <<"page", Len(requests)>>
             /\ \A f \in DOMAIN sent \ ControlFields :
                  f \in DOMAIN form_data /\ sent[f] = form_data[f]
             /\ VIEWSTATE \in DOMAIN sent

\* C23: page requests are strictly sequential: the POST for page n+1 is
\* issued only after the response to page n has been received and parsed,
\* and its hidden fields other than the control fields are those parsed
\* from the response to page n, not from an earlier page.
C23_SequentialPages == [][requests' # requests => SequentialRequest]_vars

\* the POST of page 3 went out with the view state of page 2
C23_Witness ==
    /\ Len(requests) >= 3
    /\ requests[3].data[VIEWSTATE] = <<"page", 2>>
    /\ fetched = 3

(***************************************************************************)
(* Session establishment: dibbs_session of solicitations.py (no retry),    *)
(* of dibbs_awards_scraper.py (retry on request errors), of                *)
(* dibbs_rfq_downloader.py (retry on every exception), and                 *)
(* DIBBSLocalScraper._create_dibbs_session (errors swallowed).             *)
(***************************************************************************)
\* max_retries=3, the default of both retrying variants
SessMaxRetries == 3

DIBBS_HOST == "https://www.dibbs.bsm.dla.mil/"

WarningAction == "./dodwarning.aspx?goto=%2f"

InputNames == {"__VIEWSTATE", "butAgree"}

\* the landing pages a GET can be answered with: without a form, with a form
\* tag lacking the action/method attributes, with a form whose action is
\* empty or the warning page itself
LandingPages ==
    {NoPage}
    \cup {[has_form |-> TRUE, has_attrs |-> FALSE, action |-> "", inputs |-> i] :
            i \in SUBSET InputNames}
    \cup {[has_form |-> TRUE, has_attrs |-> TRUE, action |-> a, inputs |-> i] :
            a \in {WarningAction, ""}, i \in SUBSET InputNames}

\* form_action.replace('./', '')
RemoveDotSlash(a) == IF a = WarningAction THEN "dodwarning.aspx?goto=%2f" ELSE a

\* the name/value pairs of the inputs inside the form
FormData(page) == [f \in page.inputs |-> <<"value", f>>]

\* attrs['action'] / attrs['method'] raise KeyError on a form tag without
\* them; the local scraper reads attrs_dict.get('action', '')
ParseRaises(impl, page) == impl # "local" /\ page.has_form /\ ~page.has_attrs

\* FormParser().parse(page)
ParseLanding(page) == [data |-> FormData(page), action |-> RemoveDotSlash(page.action)]

\* host + form_action
Url(host, action) == <<host, action>>

\* time.sleep(2 ** attempt)
Backoff(a) == 2 ^ a

\* "if attempt == max_retries - 1: raise"
LastAttempt(a) == a = SessMaxRetries - 1

\* what an exception of the given kind does in each variant
OnFailure(kind) ==
    IF s_impl = "local"
    THEN \* except Exception: warn, then "return session"
         /\ spc' = "returned"
         /\ UNCHANGED <<attempt, sleeps, s_exc>>
    ELSE IF \/ s_impl = "solicitations"
            \/ s_impl = "awards" /\ kind # "RequestException"
    THEN \* no handler catches it
         /\ spc' = "raised"
         /\ s_exc' = kind
         /\ UNCHANGED <<attempt, sleeps>>
    ELSE IF LastAttempt(attempt)
    THEN /\ spc' = "raised"
         /\ s_exc' = kind
         /\ UNCHANGED <<attempt, sleeps>>
    ELSE /\ sleeps' = Append(sleeps, Backoff(attempt))
         /\ attempt' = attempt + 1
         /\ spc' = "get"
         /\ UNCHANGED s_exc

SessInit ==
    /\ s_impl \in {"solicitations", "awards", "rfq_downloader", "local"}
    /\ spc = "get"
    /\ attempt = 0
    /\ landing = NoPage
    /\ s_form = NoForm
    /\ posted = <<>>
    /\ sleeps = <<>>
    /\ s_exc = "none"
    /\ CrawlIdle
    /\ PdIdle
    /\ MergeIdle
    /\ ParseIdle
    /\ HtmlIdle
    /\ DlIdle
    /\ HistIdle

\* the GET of the landing page is answered; the page is parsed
SessGet ==
    /\ spc = "get"
    /\ \E page \in LandingPages :
         /\ landing' = page
         /\ IF ParseRaises(s_impl, page)
            THEN /\ OnFailure("KeyError")
                 /\ UNCHANGED s_form
            ELSE /\ s_form' = ParseLanding(page)
                 /\ IF s_impl = "local" /\ (page.action = "" \/ page.inputs = {})
                    THEN \* "if parser.form_action and parser.form_data" fails
                         spc' = "returned"
                    ELSE spc' = "post"
                 /\ UNCHANGED <<attempt, sleeps, s_exc>>
    /\ UNCHANGED <<s_impl, posted>>
    /\ UNCHANGED nonSess

\* the GET raises (or, where raise_for_status is called, answers an error status)
SessGetFails ==
    /\ spc = "get"
    /\ OnFailure("RequestException")
    /\ UNCHANGED <<s_impl, landing, s_form, posted>>
    /\ UNCHANGED nonSess

\* the form is POSTed to host + form_action and the session returned
SessPost ==
    /\ spc = "post"
    /\ posted' = Append(posted, [url |-> Url(DIBBS_HOST, s_form.action),
                                 data |-> s_form.data])
    /\ spc' = "returned"
    /\ UNCHANGED <<s_impl, attempt, landing, s_form, sleeps, s_exc>>
    /\ UNCHANGED nonSess

\* the POST raises
SessPostFails ==
    /\ spc = "post"
    /\ posted' = Append(posted, [url |-> Url(DIBBS_HOST, s_form.action),
                                 data |-> s_form.data])
    /\ OnFailure("RequestException")
    /\ UNCHANGED <<s_impl, landing, s_form>>
    /\ UNCHANGED nonSess

SessNext ==
    \/ SessGet
    \/ SessGetFails
    \/ SessPost
    \/ SessPostFails

SpecSession == SessInit /\ [][SessNext]_vars

(***************************************************************************)
(* Claims about session establishment                                      *)
(***************************************************************************)
\* C8: session establishment fails when the landing page holds no consent
\* form; a session handle is returned only after the consent form's input
\* fields were posted to the form's action URL.
C8_SessionOnlyAfterConsentPost ==
    spc = "returned" =>
        /\ landing.has_form
        /\ posted # <<>>
        /\ posted[Len(posted)] =
               [url |-> Url(DIBBS_HOST, RemoveDotSlash(landing.action)),
                data |-> FormData(landing)]

(***************************************************************************)
(* process_date and process_date_range of combined.py.  The rows and       *)
(* records handled are counted, not listed: the steps of process_date      *)
(* branch on the counts only.                                              *)
(***************************************************************************)
\* number of dates in the range handed to process_date_range
MaxDates == 2
\* largest number of rows one web scrape returns
MaxScraped == 2
\* largest number of records parsed from one downloaded file
MaxFileRecs == 1

W_NoWeb == "No solicitations found via web scrape"

W_NoNew == "No new solicitations to process"

W_NoIn == "IN file not available"

W_NoBq == "BQ/AS files not available"

W_NoData == "No data found from any source"

Warn(r, w) == [r EXCEPT !.warnings = Append(@, w)]

\* "if is_today and existing_solicitations": the call that names
\* WRITE_APPEND, else the call with the default disposition
LoadMode(today, existing) ==
    IF today = "true" /\ existing = "nonempty" THEN "append" ELSE "replace"

\* line 1243, "if is_today and existing_solicitations": reading a local that
\* was never assigned raises UnboundLocalError outside the try block
Summary(today) == IF today = "unbound" THEN "raised" ELSE "returned"

RangeInit ==
    /\ rpc = "loop"
    /\ current_date = 1
    /\ all_results = <<>>
    /\ ppc = "idle"
    /\ PdLocalsInit
    /\ CrawlIdle
    /\ SessIdle
    /\ MergeIdle
    /\ ParseIdle
    /\ HtmlIdle
    /\ DlIdle
    /\ HistIdle

\* check_date_exists(date_str) holds: the date is skipped
RangeSkip ==
    /\ rpc = "loop" /\ ppc = "idle"
    /\ current_date <= MaxDates
    /\ current_date' = current_date + 1
    /\ UNCHANGED <<ppc, results, is_today, existing_solicitations, n_web,
                   n_in, n_bq, n_as, contents, merged_data, load_mode,
                   failures, rpc, all_results>>
    /\ UNCHANGED nonPd

\* process_date is entered: fresh locals and results record
RangeStart ==
    /\ rpc = "loop" /\ ppc = "idle"
    /\ current_date <= MaxDates
    /\ ppc' = "scrape"
    /\ results' = NewResults
    /\ is_today' = "unbound"
    /\ existing_solicitations' = "unbound"
    /\ n_web' = 0 /\ n_in' = 0 /\ n_bq' = 0 /\ n_as' = 0
    /\ contents' = {}
    /\ merged_data' = 0
    /\ load_mode' = "none"
    /\ failures' = {}
    /\ UNCHANGED <<rpc, current_date, all_results>>
    /\ UNCHANGED nonPd

\* Step 1: the web scrape returns n rows; on today's date the rows already
\* in the sink are filtered out, and the call returns early if none is new
PdScrape ==
    /\ ppc = "scrape"
    /\ \E n \in 0..MaxScraped, today \in BOOLEAN, existing \in BOOLEAN, new \in 0..MaxScraped :
         LET r1 == [results EXCEPT !.solicitations_count = n]
             r2 == IF n = 0 THEN Warn(r1, W_NoWeb) ELSE r1
         IN  /\ new <= n
             /\ ~today => (new = n /\ ~existing)
             /\ is_today' = (IF today THEN "true" ELSE "false")
             /\ existing_solicitations' = (IF existing THEN "nonempty" ELSE "empty")
             /\ n_web' = new
             /\ IF today /\ new = 0
                THEN /\ results' = Warn([r2 EXCEPT !.success = TRUE], W_NoNew)
                     /\ ppc' = "returned"
                ELSE /\ results' = (IF new = 0 THEN Warn(r2, W_NoWeb) ELSE r2)
                     /\ ppc' = "in_file"
    /\ UNCHANGED <<n_in, n_bq, n_as, contents, merged_data, load_mode,
                   failures, rpc, current_date, all_results>>
    /\ UNCHANGED nonPd

\* Step 1 raises (session or page request failure): the outer handler sets
\* success to False and control reaches the summary
PdScrapeFails ==
    /\ ppc = "scrape"
    /\ failures' = failures \cup {"web_scrape"}
    /\ results' = [results EXCEPT !.success = FALSE]
    /\ ppc' = "summary"
    /\ UNCHANGED <<is_today, existing_solicitations, n_web, n_in, n_bq,
                   n_as, contents, merged_data, load_mode, rpc, current_date,
                   all_results>>
    /\ UNCHANGED nonPd

\* Step 2: the index file is downloaded and parsed
PdInFile ==
    /\ ppc = "in_file"
    /\ \E n \in 0..MaxFileRecs :
         /\ n_in' = n
         /\ contents' = contents \cup {"in"}
    /\ ppc' = "bq_zip"
    /\ UNCHANGED <<results, is_today, existing_solicitations, n_web, n_bq,
                   n_as, merged_data, load_mode, failures, rpc, current_date,
                   all_results>>
    /\ UNCHANGED nonPd

\* Step 2: download_to_memory returns None
PdInFileFails ==
    /\ ppc = "in_file"
    /\ results' = Warn(results, W_NoIn)
    /\ failures' = failures \cup {"in_download"}
    /\ ppc' = "bq_zip"
    /\ UNCHANGED <<is_today, existing_solicitations, n_web, n_in, n_bq,
                   n_as, contents, merged_data, load_mode, rpc, current_date,
                   all_results>>
    /\ UNCHANGED nonPd

\* Step 3: the zip is downloaded; the members present are parsed
PdBqZip ==
    /\ ppc = "bq_zip"
    /\ \E has_bq \in BOOLEAN, has_as \in BOOLEAN, nb \in 0..MaxFileRecs, na \in 0..MaxFileRecs :
         /\ ~has_bq => nb = 0
         /\ ~has_as => na = 0
         /\ n_bq' = nb
         /\ n_as' = na
         /\ contents' = contents \cup (IF has_bq THEN {"bq"} ELSE {})
                                 \cup (IF has_as THEN {"as"} ELSE {})
    /\ ppc' = "files"
    /\ UNCHANGED <<results, is_today, existing_solicitations, n_web, n_in,
                   merged_data, load_mode, failures, rpc, current_date, all_results>>
    /\ UNCHANGED nonPd

\* Step 3: download_to_memory returns None
PdBqDownloadFails ==
    /\ ppc = "bq_zip"
    /\ results' = Warn(results, W_NoBq)
    /\ failures' = failures \cup {"bq_download"}
    /\ ppc' = "files"
    /\ UNCHANGED <<is_today, existing_solicitations, n_web, n_in, n_bq,
                   n_as, contents, merged_data, load_mode, rpc, current_date,
                   all_results>>
    /\ UNCHANGED nonPd

\* Step 3: the zip extraction raises, at once or after the batch-quote
\* member was parsed; the handler logs it
PdBqZipFails ==
    /\ ppc = "bq_zip"
    /\ \E parsed_bq \in BOOLEAN, nb \in 0..MaxFileRecs :
         /\ ~parsed_bq => nb = 0
         /\ n_bq' = nb
         /\ contents' = contents \cup (IF parsed_bq THEN {"bq"} ELSE {})
    /\ failures' = failures \cup {"zip"}
    /\ ppc' = "files"
    /\ UNCHANGED <<results, is_today, existing_solicitations, n_web, n_in,
                   n_as, merged_data, load_mode, rpc, current_date, all_results>>
    /\ UNCHANGED nonPd

\* Steps 4 and 5: documents of the web rows and the three source files are
\* uploaded; every failure is counted or logged inside the step
PdFiles ==
    /\ ppc = "files"
    /\ \E docs \in 0..MaxScraped, files \in 0..1 :
         /\ docs <= n_web
         /\ files = 1 => contents = {"in", "bq", "as"}
         /\ results' = [results EXCEPT !.files_uploaded = @ + docs + files]
    /\ ppc' = "merge"
    /\ UNCHANGED <<is_today, existing_solicitations, n_web, n_in, n_bq,
                   n_as, contents, merged_data, load_mode, failures, rpc,
                   current_date, all_results>>
    /\ UNCHANGED nonPd

\* Step 6: merge_data_sources; every index and batch-quote record and every
\* web row with a solicitation number belongs to a merged solicitation
PdMerge ==
    /\ ppc = "merge"
    /\ \E m \in 0..(MaxScraped + 2 * MaxFileRecs) :
         /\ m <= n_web + n_in + n_bq
         /\ n_in + n_bq > 0 => m >= 1
         /\ merged_data' = m
    /\ ppc' = "load"
    /\ UNCHANGED <<results, is_today, existing_solicitations, n_web, n_in,
                   n_bq, n_as, contents, load_mode, failures, rpc,
                   current_date, all_results>>
    /\ UNCHANGED nonPd

\* Step 7: the sink load succeeds, or there is nothing to load.  The load
\* is the call without write_disposition (lines 1215-1221): json_to_table
\* takes it and writes with its default disposition
PdLoad ==
    /\ ppc = "load"
    /\ IF merged_data > 0
       THEN /\ LoadMode(is_today, existing_solicitations) = "replace"
            /\ load_mode' = "replace"
            /\ results' = [results EXCEPT !.bigquery_loaded = TRUE, !.success = TRUE]
       ELSE /\ load_mode' = load_mode
            /\ results' =
                 [(IF n_web = 0 /\ n_in = 0 /\ n_bq = 0
                   THEN Warn(results, W_NoData) ELSE results)
                  EXCEPT !.success = TRUE]
    /\ ppc' = "summary"
    /\ UNCHANGED <<is_today, existing_solicitations, n_web, n_in, n_bq,
                   n_as, contents, merged_data, failures, rpc, current_date,
                   all_results>>
    /\ UNCHANGED nonPd

\* Step 7 on a rerun of today's date: the call passes
\* write_disposition='WRITE_APPEND' (lines 1205-1212), a keyword
\* json_to_table does not have (bigquery_api.py lines 562-571); the call
\* raises TypeError before json_to_table is entered, the handler of line
\* 1226 logs it, and nothing is written
PdLoadAppendRaises ==
    /\ ppc = "load"
    /\ merged_data > 0
    /\ LoadMode(is_today, existing_solicitations) = "append"
    /\ results' = [results EXCEPT !.success = TRUE]
    /\ ppc' = "summary"
    /\ UNCHANGED <<is_today, existing_solicitations, n_web, n_in, n_bq,
                   n_as, contents, merged_data, load_mode, failures, rpc,
                   current_date, all_results>>
    /\ UNCHANGED nonPd

\* Step 7: json_to_table raises; the handler logs it
PdLoadFails ==
    /\ ppc = "load"
    /\ merged_data > 0
    /\ LoadMode(is_today, existing_solicitations) = "replace"
    /\ load_mode' = "replace"
    /\ failures' = failures \cup {"sink_load"}
    /\ results' = [results EXCEPT !.success = TRUE]
    /\ ppc' = "summary"
    /\ UNCHANGED <<is_today, existing_solicitations, n_web, n_in, n_bq,
                   n_as, contents, merged_data, rpc, current_date, all_results>>
    /\ UNCHANGED nonPd

\* the summary after the try block, then "return results"
PdSummary ==
    /\ ppc = "summary"
    /\ ppc' = Summary(is_today)
    /\ UNCHANGED <<results, is_today, existing_solicitations, n_web, n_in,
                   n_bq, n_as, contents, merged_data, load_mode, failures,
                   rpc, current_date, all_results>>
    /\ UNCHANGED nonPd

\* process_date_range appends the result, sleeps and moves to the next date
RangeCollect ==
    /\ rpc = "loop" /\ ppc = "returned"
    /\ all_results' = Append(all_results, [date |-> current_date,
                                           success |-> results.success])
    /\ current_date' = current_date + 1
    /\ ppc' = "idle"
    /\ UNCHANGED <<results, is_today, existing_solicitations, n_web, n_in,
                   n_bq, n_as, contents, merged_data, load_mode, failures,
                   rpc>>
    /\ UNCHANGED nonPd

\* process_date raised: process_date_range has no handler
RangeAbort ==
    /\ rpc = "loop" /\ ppc = "raised"
    /\ rpc' = "raised"
    /\ UNCHANGED <<ppc, results, is_today, existing_solicitations, n_web,
                   n_in, n_bq, n_as, contents, merged_data, load_mode,
                   failures, current_date, all_results>>
    /\ UNCHANGED nonPd

\* "while current_date <= end_date" ends: "return all_results"
RangeFinish ==
    /\ rpc = "loop" /\ ppc = "idle"
    /\ current_date > MaxDates
    /\ rpc' = "returned"
    /\ UNCHANGED <<ppc, results, is_today, existing_solicitations, n_web,
                   n_in, n_bq, n_as, contents, merged_data, load_mode,
                   failures, current_date, all_results>>
    /\ UNCHANGED nonPd

RangeNext ==
    \/ RangeSkip
    \/ RangeStart
    \/ PdScrape
    \/ PdScrapeFails
    \/ PdInFile
    \/ PdInFileFails
    \/ PdBqZip
    \/ PdBqDownloadFails
    \/ PdBqZipFails
    \/ PdFiles
    \/ PdMerge
    \/ PdLoad
    \/ PdLoadAppendRaises
    \/ PdLoadFails
    \/ PdSummary
    \/ RangeCollect
    \/ RangeAbort
    \/ RangeFinish

SpecDates == RangeInit /\ [][RangeNext]_vars

(***************************************************************************)
(* Claims about process_date                                               *)
(***************************************************************************)
\* C7: process_date returns a results record for every failure of the web
\* scrape, of a file download, of the zip extraction or of the sink load;
\* none of them makes process_date raise, so the date range goes on.
C7_FailuresYieldResults ==
    failures # {} => (ppc # "raised" /\ rpc # "raised")

\* process_date is past its load step on a rerun of today's date that found
\* solicitations loaded earlier and at least one new one, and no load of
\* the sink failed
RerunWithNew ==
    /\ ppc \in {"summary", "returned"}
    /\ is_today = "true"
    /\ existing_solicitations = "nonempty"
    /\ n_web > 0
    /\ merged_data > 0
    /\ "sink_load" \notin failures

\* C39: on a same-day rerun of process_date that finds previously loaded
\* solicitations and at least one new one, the newly merged records are
\* appended to the existing day table (the rows of earlier runs are kept)
\* and the run reports bigquery_loaded = true when the sink is available.
C39_RerunAppends ==
    RerunWithNew => (load_mode = "append" /\ results.bigquery_loaded)

(***************************************************************************)
(* merge_data_sources of combined.py and the conversions it calls.         *)
(*                                                                         *)
(* Text that the code transforms (solicitation numbers, NSNs, purchase     *)
(* requests, nomenclature, numbers) is a sequence of one-character         *)
(* strings; text that is only copied or looked up in a table (codes,       *)
(* dates, URLs) is a string.  Numeric text in the model carries no sign    *)
(* and no decimal point.                                                   *)
(***************************************************************************)
\* Python's None, and an absent dict key (dict.get returns None for it), in
\* a field of transformed text, of copied text and of numbers
NoneS == <<"None">>

NoneA == "None"

NoneInt == 0 - 1

Digits == <<"0", "1", "2", "3", "4", "5", "6", "7", "8", "9">>

LowerCase == <<"a", "b", "c", "d", "e", "f", "g", "h", "i", "j", "k", "l", "m",
               "n", "o", "p", "q", "r", "s", "t", "u", "v", "w", "x", "y", "z">>

UpperCase == <<"A", "B", "C", "D", "E", "F", "G", "H", "I", "J", "K", "L", "M",
               "N", "O", "P", "Q", "R", "S", "T", "U", "V", "W", "X", "Y", "Z">>

\* str.isspace of one character: the blank and the line end
IsSpace(c) == c = " " \/ c = "\n"

\* str.isdigit of one character
IsDigit(c) == \E i \in DOMAIN Digits : Digits[i] = c

DigitVal(c) == (CHOOSE i \in DOMAIN Digits : Digits[i] = c) - 1

\* str.upper of one character
UpperOf(c) ==
    IF \E i \in DOMAIN LowerCase : LowerCase[i] = c
    THEN UpperCase[CHOOSE i \in DOMAIN LowerCase : LowerCase[i] = c]
    ELSE c

\* str.upper
Upper(s) == IF s = <<>> THEN <<>> ELSE [i \in 1..Len(s) |-> UpperOf(s[i])]

RECURSIVE LStrip(_)
LStrip(s) == IF s # <<>> /\ IsSpace(Head(s)) THEN LStrip(Tail(s)) ELSE s

RECURSIVE RStrip(_)
RStrip(s) ==
    IF s # <<>> /\ IsSpace(s[Len(s)]) THEN RStrip(SubSeq(s, 1, Len(s) - 1)) ELSE s

\* str.strip
Strip(s) == RStrip(LStrip(s))

NotHyphen(c) == c # "-"

\* str.replace('-', '')
RemoveHyphens(s) == SelectSeq(s, NotHyphen)

NotComma(c) == c # ","

\* str.replace(',', '')
RemoveCommas(s) == SelectSeq(s, NotComma)

\* str.isdigit: non-empty and digits only
AllDigits(s) == s # <<>> /\ \A i \in DOMAIN s : IsDigit(s[i])

\* int() of a digit string
RECURSIVE DigitsValue(_)
DigitsValue(s) ==
    IF s = <<>> THEN 0
    ELSE 10 * DigitsValue(SubSeq(s, 1, Len(s) - 1)) + DigitVal(s[Len(s)])

\* s.split(' ')[0]
RECURSIVE FirstField(_)
FirstField(s) ==
    IF s = <<>> \/ IsSpace(Head(s)) THEN <<>> ELSE <<Head(s)>> \o FirstField(Tail(s))

\* truth value of a text, a copied text, a number
FalsyS(s) == s = <<>> \/ s = NoneS

FalsyA(a) == a = "" \/ a = NoneA

FalsyInt(n) == n = NoneInt \/ n = 0

\* clean_nsn
clean_nsn(nsn_value) ==
    IF FalsyS(nsn_value) THEN <<>> ELSE Strip(FirstField(nsn_value))

\* runs of white space become one blank
RECURSIVE Squeeze(_)
Squeeze(s) ==
    IF Len(s) <= 1 THEN s
    ELSE IF IsSpace(s[1]) /\ IsSpace(s[2]) THEN Squeeze(Tail(s))
         ELSE <<s[1]>> \o Squeeze(Tail(s))

\* clean_nomenclature: ' '.join(nomenclature.split())
clean_nomenclature(nomenclature) ==
    IF FalsyS(nomenclature) THEN <<>> ELSE Squeeze(Strip(nomenclature))

\* str.zfill(4)
zfill4(s) ==
    IF Len(s) >= 4 THEN s ELSE [i \in 1..(4 - Len(s)) |-> "0"] \o s

\* _parse_int: None for None, for '' and for text int() rejects
parse_int(value) ==
    IF FalsyS(value) THEN NoneInt
    ELSE LET cleaned == RemoveCommas(Strip(value))
         IN  IF AllDigits(cleaned) THEN DigitsValue(cleaned) ELSE NoneInt

\* _parse_float, on numeric text without a decimal point
parse_float(value) ==
    IF FalsyS(value) THEN NoneInt
    ELSE LET cleaned == RemoveCommas(Strip(value))
         IN  IF AllDigits(cleaned) THEN DigitsValue(cleaned) ELSE NoneInt

(***************************************************************************)
(* extract_quantity_from_purchase_request.  Its pattern, matched without   *)
(* regard to case: optional white space, QTY:, optional white space, the   *)
(* group (digits, then any number of commas each followed by digits),      *)
(* optional white space.                                                   *)
(***************************************************************************)
\* white space from position i: the position after it
RECURSIVE SkipSpace(_, _)
SkipSpace(s, i) ==
    IF i <= Len(s) /\ IsSpace(s[i]) THEN SkipSpace(s, i + 1) ELSE i

\* digits from position i: the position after them
RECURSIVE SkipDigits(_, _)
SkipDigits(s, i) ==
    IF i <= Len(s) /\ IsDigit(s[i]) THEN SkipDigits(s, i + 1) ELSE i

\* groups of a comma and digits from position j: the position after them
RECURSIVE SkipGroups(_, _)
SkipGroups(s, j) ==
    IF j + 1 <= Len(s) /\ s[j] = "," /\ IsDigit(s[j + 1])
    THEN SkipGroups(s, SkipDigits(s, j + 1))
    ELSE j

\* QTY: at position j, in any case
QtyAt(s, j) ==
    /\ j + 3 <= Len(s)
    /\ UpperOf(s[j]) = "Q"
    /\ UpperOf(s[j + 1]) = "T"
    /\ UpperOf(s[j + 2]) = "Y"
    /\ s[j + 3] = ":"

NoMatch == [from |-> 0, to |-> 0, stop |-> 0]

\* the match of the pattern that starts at position i: group 1 is
\* s[from..to-1] and the match ends before position stop
QtyMatch(s, i) ==
    LET j == SkipSpace(s, i)
    IN  IF ~QtyAt(s, j) THEN NoMatch
        ELSE LET k == SkipSpace(s, j + 4)
             IN  IF k <= Len(s) /\ IsDigit(s[k])
                 THEN LET e == SkipGroups(s, SkipDigits(s, k))
                      IN  [from |-> k, to |-> e, stop |-> SkipSpace(s, e)]
                 ELSE NoMatch

\* re.search: the leftmost match
QtySearch(s) ==
    IF \E i \in DOMAIN s : QtyMatch(s, i) # NoMatch
    THEN LET first == CHOOSE i \in DOMAIN s :
                         /\ QtyMatch(s, i) # NoMatch
                         /\ \A h \in 1..(i - 1) : QtyMatch(s, h) = NoMatch
         IN  QtyMatch(s, first)
    ELSE NoMatch

\* re.sub(pattern, '', s): every match is removed, scanning from the left
RECURSIVE QtySub(_, _)
QtySub(s, i) ==
    IF i > Len(s) THEN <<>>
    ELSE IF QtyMatch(s, i) # NoMatch THEN QtySub(s, QtyMatch(s, i).stop)
         ELSE <<s[i]>> \o QtySub(s, i + 1)

\* an extraction whose pattern matches nothing
extract_quantity_no_match(purchase_request) ==
    IF FalsyS(purchase_request) THEN [pr |-> <<>>, qty |-> NoneInt]
    ELSE [pr |-> Strip(purchase_request), qty |-> NoneInt]

\* extract_quantity_from_purchase_request: (cleaned_pr, quantity)
extract_quantity_from_purchase_request(purchase_request) ==
    IF FalsyS(purchase_request) THEN [pr |-> <<>>, qty |-> NoneInt]
    ELSE LET match == QtySearch(purchase_request)
         IN  IF match # NoMatch
             THEN [pr  |-> Strip(QtySub(purchase_request, 1)),
                   qty |-> DigitsValue(RemoveCommas(
                              SubSeq(purchase_request, match.from, match.to - 1)))]
             ELSE [pr |-> Strip(purchase_request), qty |-> NoneInt]

(***************************************************************************)
(* parse_date and decode_setaside.  strptime is the table of the formats   *)
(* that accept each date text of the model and of the date it denotes.     *)
(***************************************************************************)
DefaultFormat == "%m/%d/%Y"

InFormat == "%m%d%y"

\* the date texts of the model: the formats strptime accepts them under,
\* strftime('%Y-%m-%d') of the date, and whether the text has a '-' after
\* its first two characters
DateTable(text) ==
    CASE text = "06/10/2025" -> [fmts |-> {"%m/%d/%Y"}, iso |-> "2025-06-10", dash2 |-> FALSE]
      [] text = "2025-06-01" -> [fmts |-> {"%Y-%m-%d"}, iso |-> "2025-06-01", dash2 |-> FALSE]
      [] text = "2025-06-11" -> [fmts |-> {"%Y-%m-%d"}, iso |-> "2025-06-11", dash2 |-> FALSE]
      [] text = "06/12/25"   -> [fmts |-> {"%m/%d/%y"}, iso |-> "2025-06-12", dash2 |-> FALSE]
      [] OTHER               -> [fmts |-> {}, iso |-> NoneA, dash2 |-> FALSE]

\* parse_date: the first of the formats tried that accepts the text
parse_date(date_str, format) ==
    IF FalsyA(date_str) THEN NoneA
    ELSE LET fmt0    == IF DateTable(date_str).dash2 THEN "%m-%d-%Y" ELSE format
             formats == <<fmt0, "%m-%d-%Y", "%Y-%m-%d", "%m/%d/%y", "%m%d%Y", "%m%d%y">>
         IN  IF \E i \in DOMAIN formats : formats[i] \in DateTable(date_str).fmts
             THEN DateTable(date_str).iso
             ELSE NoneA

\* decode_setaside
decode_setaside(code) ==
    CASE code = "Y" -> [code |-> code, description |-> "Small Business Set-Aside", percentage |-> 100]
      [] code = "H" -> [code |-> code, description |-> "HUBZone Set-Aside", percentage |-> 100]
      [] code = "R" -> [code |-> code, description |-> "Service Disabled Veteran-Owned Small Business (SDVOSB) Set-Aside", percentage |-> 100]
      [] code = "L" -> [code |-> code, description |-> "Woman Owned Small Business (WOSB) Set-Aside", percentage |-> 100]
      [] code = "A" -> [code |-> code, description |-> "8a Set-Aside", percentage |-> 100]
      [] code = "E" -> [code |-> code, description |-> "Economically Disadvantaged Woman Owned Small Business (EDWOSB) Set-Aside", percentage |-> 100]
      [] code = "N" -> [code |-> code, description |-> "Unrestricted/Not Set-Aside", percentage |-> 0]
      [] OTHER      -> [code |-> code, description |-> "Unknown", percentage |-> 0]

(***************************************************************************)
(* The rows the four parsers hand to merge_data_sources                    *)
(***************************************************************************)
\* largest number of batch-quote, web and index rows of one merge
MaxRows == 3

\* a record of parse_bq_file: every field is text of the file
BqRow(sol, line, kind) ==
    IF kind = "full"
    THEN [solicitation_number |-> sol, line_number |-> line,
          nsn_part_number |-> <<"1", "-", "2">>,
          solicitation_type |-> "F", small_business_setaside |-> "Y",
          additional_clause_fillins |-> "Y", return_by_date |-> "06/10/2025",
          purchase_request |-> <<"R", "1">>, unit_of_issue |-> "EA",
          quantity |-> <<"5">>, unit_price |-> <<"7">>, delivery_days |-> <<"9">>]
    ELSE [solicitation_number |-> sol, line_number |-> line,
          nsn_part_number |-> <<"P", "9">>,
          solicitation_type |-> "", small_business_setaside |-> "N",
          additional_clause_fillins |-> "N", return_by_date |-> "",
          purchase_request |-> <<>>, unit_of_issue |-> "",
          quantity |-> <<>>, unit_price |-> <<>>, delivery_days |-> <<>>]

BqKinds == {"full", "sparse"}

\* solicitation numbers of the batch-quote file: plain, hyphenated, empty
BqSolNumbers == {<<"A", "1">>, <<"A", "-", "1">>, <<>>}

BqLineNumbers == {<<"1">>, <<"2">>}

\* a row of RfqRecsParser: the solicitation number and the NSN carry no
\* hyphen and no outer white space (solicitations.py lines 186 and 199)
WebRow(sol, nsn, kind) ==
    CASE kind = "full" ->
           [solicitation |-> sol, nsn_part_number |-> nsn,
            nomenclature |-> <<"N", "U", "T">>, technical_documents |-> <<"doc">>,
            setaside_type |-> "SB", rfq_quote_status |-> "Open",
            issued |-> "2025-06-01", return_by |-> "2025-06-11",
            solicitation_url |-> "url",
            purchase_request |-> <<"R", "2", " ", "Q", "T", "Y", ":", " ", "4">>,
            quantity |-> <<"4">>]
      [] kind = "comma" ->
           [solicitation |-> sol, nsn_part_number |-> nsn,
            nomenclature |-> <<"C", "A", "P">>, technical_documents |-> <<>>,
            setaside_type |-> "", rfq_quote_status |-> "Open",
            issued |-> "N/A", return_by |-> "",
            solicitation_url |-> "url",
            purchase_request |-> <<"P", "R", "1", "2", "3", "4", "5", " ",
                                   "Q", "T", "Y", ":", " ", "1", ",", "2", "0", "0">>,
            quantity |-> <<"7">>]
      [] kind = "plain" ->
           [solicitation |-> sol, nsn_part_number |-> nsn,
            nomenclature |-> <<"P", "I", "N">>, technical_documents |-> <<>>,
            setaside_type |-> "", rfq_quote_status |-> "Open",
            issued |-> "N/A", return_by |-> "",
            solicitation_url |-> "url",
            purchase_request |-> <<"R", "4">>,
            quantity |-> <<"6">>]
      [] OTHER ->
           [solicitation |-> sol, nsn_part_number |-> nsn,
            nomenclature |-> <<>>, technical_documents |-> <<>>,
            setaside_type |-> "", rfq_quote_status |-> "",
            issued |-> "", return_by |-> "",
            solicitation_url |-> "",
            purchase_request |-> <<>>,
            quantity |-> <<>>]

WebRows ==
    {WebRow(<<"A", "1">>, <<"1", "2">>, "full"),
     WebRow(<<"A", "1">>, <<"1", "2">>, "sparse"),
     WebRow(<<"A", "1">>, <<"1", "2", " ", "M">>, "plain"),
     WebRow(<<"A", "1">>, <<"P", "9">>, "full"),
     WebRow(<<"A", "1">>, <<"P", "9">>, "comma"),
     WebRow(<<"A", "1">>, <<>>, "sparse"),
     WebRow(<<"a", "1">>, <<"1", "2">>, "sparse"),
     WebRow(<<"B", "2">>, <<"1", "2">>, "full"),
     WebRow(<<>>, <<"1", "2">>, "full")}

\* a record of parse_in_file: every field is stripped; nsn_clean is set
\* only for a non-empty nsn_part_number
InRow(sol, nsn, kind) ==
    IF kind = "full"
    THEN [solicitation_number |-> sol, nsn_part_number |-> nsn,
          purchase_request |-> <<"R", "3">>, return_by_date |-> "06/12/25",
          quantity |-> <<"3">>, unit_issue |-> "BX",
          nomenclature |-> <<"B", "O", "L", "T">>, amsc |-> "G",
          small_business_setaside |-> "H", setaside_percentage |-> <<"5", "0">>]
    ELSE [solicitation_number |-> sol, nsn_part_number |-> nsn,
          purchase_request |-> <<>>, return_by_date |-> "",
          quantity |-> <<>>, unit_issue |-> "",
          nomenclature |-> <<>>, amsc |-> "",
          small_business_setaside |-> "", setaside_percentage |-> <<>>]

InRows ==
    {InRow(<<"A", "1">>, <<"1", "-", "2">>, "full"),
     InRow(<<"A", "1">>, <<"1", "-", "2">>, "sparse"),
     InRow(<<"A", "1">>, <<"3", "4">>, "full"),
     InRow(<<"A", "1">>, <<>>, "sparse"),
     InRow(<<"a", "1">>, <<"1", "-", "2">>, "full"),
     InRow(<<>>, <<"3", "4">>, "sparse")}

\* a record of parse_as_file
AsRow(nsn, cage, part) ==
    [nsn |-> nsn, supplier_cage_code |-> cage, supplier_part_number |-> part]

AS1 == AsRow(<<"1", "-", "2">>, "C1", <<"V", "1">>)

AS2 == AsRow(<<"1", "2">>, "C2", <<"V", "2">>)

AS3 == AsRow(<<>>, "C3", <<"V", "3">>)

AS4 == AsRow(<<"P", "9">>, "C4", <<"V", "4">>)

\* the approved-source files of the model
AsInputs == {<<>>, <<AS1>>, <<AS2, AS1>>, <<AS3>>, <<AS4, AS3, AS1>>}

(***************************************************************************)
(* The passes of merge_data_sources                                        *)
(***************************************************************************)
\* a new value of the dict solicitations; the keys a later update adds are
\* present from the start and hold None (dict.get cannot tell them apart)
NewSolicitation(sol_num, source) ==
    [solicitation_number |-> sol_num, clins |-> <<>>,
     scrape_timestamp |-> "utcnow", data_source |-> source,
     last_updated |-> "utcnow",
     solicitation_type |-> NoneA, small_business_setaside |-> NoneA,
     additional_clause_fillins |-> NoneA, return_by_date |-> NoneA,
     setaside_type |-> NoneA, rfq_quote_status |-> NoneA,
     issued_date |-> NoneA, links |-> <<>>,
     setaside_percentage |-> NoneInt, amsc |-> NoneA,
     raw_batch_quote_data |-> <<>>]

\* position of solicitations[key], 0 if key is not in the dict
KeyIndex(sols, key) ==
    IF \E i \in DOMAIN sols : sols[i].solicitation_number = key
    THEN CHOOSE i \in DOMAIN sols : sols[i].solicitation_number = key
    ELSE 0

\* a creation that tags every new Solicitation as batch_quote
EnsureBatchQuoteTag(sols, key, source) ==
    IF KeyIndex(sols, key) = 0
    THEN Append(sols, NewSolicitation(key, "batch_quote"))
    ELSE sols

\* "if key not in solicitations: solicitations[key] = {...}"
Ensure(sols, key, source) ==
    IF KeyIndex(sols, key) = 0 THEN Append(sols, NewSolicitation(key, source))
    ELSE sols

\* a search that looks only at the CLINs without line number
FindClinUnnumbered(clins, nsn) ==
    IF \E k \in DOMAIN clins : clins[k].clin = NoneS /\ clins[k].nsn = nsn
    THEN CHOOSE k \in DOMAIN clins :
            /\ clins[k].clin = NoneS
            /\ clins[k].nsn = nsn
            /\ \A h \in 1..(k - 1) : ~(clins[h].clin = NoneS /\ clins[h].nsn = nsn)
    ELSE 0

\* a search that keeps the last CLIN with that NSN (the loop without
\* its break)
FindClinLast(clins, nsn) ==
    IF \E k \in DOMAIN clins : clins[k].nsn = nsn
    THEN CHOOSE k \in DOMAIN clins :
            /\ clins[k].nsn = nsn
            /\ \A h \in (k + 1)..Len(clins) : clins[h].nsn # nsn
    ELSE 0

\* "for clin in sol['clins']: if clin['nsn'] == nsn: ... break": the
\* position of the first CLIN with that NSN, 0 if there is none
FindClin(clins, nsn) ==
    IF \E k \in DOMAIN clins : clins[k].nsn = nsn
    THEN CHOOSE k \in DOMAIN clins :
            /\ clins[k].nsn = nsn
            /\ \A h \in 1..(k - 1) : clins[h].nsn # nsn
    ELSE 0

\* a CLIN whose number is the line number as the file writes it
BqClinUnpadded(record) ==
    LET nsn_raw == record.nsn_part_number
    IN  [clin |-> record.line_number,
         nsn |-> IF nsn_raw # <<>> THEN RemoveHyphens(nsn_raw) ELSE <<>>,
         part_number |-> nsn_raw,
         nomenclature |-> clean_nomenclature(<<>>),
         pr_number |-> record.purchase_request,
         quantity |-> parse_int(record.quantity),
         unit_of_issue |-> record.unit_of_issue,
         unit_price |-> parse_float(record.unit_price),
         delivery_days |-> parse_int(record.delivery_days),
         technical_documents |-> <<>>,
         approved_sources |-> <<>>]

\* the CLIN of one batch-quote record (lines 581-601)
BqClin(record) ==
    LET nsn_raw == record.nsn_part_number
    IN  [clin |-> zfill4(record.line_number),
         nsn |-> IF nsn_raw # <<>> THEN RemoveHyphens(nsn_raw) ELSE <<>>,
         part_number |-> nsn_raw,
         nomenclature |-> clean_nomenclature(<<>>),
         pr_number |-> record.purchase_request,
         quantity |-> parse_int(record.quantity),
         unit_of_issue |-> record.unit_of_issue,
         unit_price |-> parse_float(record.unit_price),
         delivery_days |-> parse_int(record.delivery_days),
         technical_documents |-> <<>>,
         approved_sources |-> <<>>]

\* pass 1, one item of bq_lookup (lines 551-607)
BqApply(sols, key, records) ==
    LET sol_num_clean == Upper(Strip(key[1]))
        s0    == Ensure(sols, sol_num_clean, "batch_quote")
        i     == KeyIndex(s0, sol_num_clean)
        first == records[1]
        sol   == [s0[i] EXCEPT
                    !.solicitation_type = first.solicitation_type,
                    !.small_business_setaside = first.small_business_setaside,
                    !.additional_clause_fillins =
                        IF first.additional_clause_fillins = "Y" THEN "True" ELSE "False",
                    !.return_by_date = parse_date(first.return_by_date, DefaultFormat),
                    !.clins = @ \o [j \in 1..Len(records) |-> BqClin(records[j])],
                    !.raw_batch_quote_data = @ \o records]
    IN  [s0 EXCEPT ![i] = sol]

\* an enrichment that adds the row's documents to those of the CLIN
WebEnhanceAddDocs(existing_clin, record, nomenclature, pr, final_quantity) ==
    [existing_clin EXCEPT
       !.technical_documents = @ \o record.technical_documents,
       !.nomenclature = IF FalsyS(@) THEN nomenclature ELSE @,
       !.pr_number = IF FalsyS(@) THEN pr ELSE @,
       !.quantity = IF FalsyInt(@) THEN final_quantity ELSE @]

\* the CLIN a web row leaves at a CLIN of the same NSN (lines 681-690)
WebEnhance(existing_clin, record, nomenclature, pr, final_quantity) ==
    [existing_clin EXCEPT
       !.technical_documents = record.technical_documents,
       !.nomenclature = IF FalsyS(@) THEN nomenclature ELSE @,
       !.pr_number = IF FalsyS(@) THEN pr ELSE @,
       !.quantity = IF FalsyInt(@) THEN final_quantity ELSE @]

\* a web pass that skips every row, as the code skips a row without
\* solicitation number
WebApplySkip(sols, record) == sols

\* pass 2, one web row (lines 611-702)
WebApply(sols, record) ==
    LET sol_num == Strip(record.solicitation)
    IN  IF sol_num = <<>> THEN sols
        ELSE
        LET sol_num_clean == Upper(Strip(sol_num))
            s0  == Ensure(sols, sol_num_clean, "web_scrape")
            i   == KeyIndex(s0, sol_num_clean)
            raw_nsn  == record.nsn_part_number
            nsn      == clean_nsn(raw_nsn)
            ex       == extract_quantity_from_purchase_request(record.purchase_request)
            nomenclature   == clean_nomenclature(record.nomenclature)
            final_quantity == IF ex.qty # NoneInt THEN ex.qty
                              ELSE parse_int(record.quantity)
            k        == FindClin(s0[i].clins, nsn)
            new_clin == [clin |-> NoneS, nsn |-> nsn, part_number |-> raw_nsn,
                         nomenclature |-> nomenclature, pr_number |-> ex.pr,
                         quantity |-> final_quantity, unit_of_issue |-> NoneA,
                         unit_price |-> NoneInt, delivery_days |-> NoneInt,
                         technical_documents |-> record.technical_documents,
                         approved_sources |-> <<>>]
            sol == [s0[i] EXCEPT
                      !.data_source = IF @ = "batch_quote"
                                      THEN "batch_quote_and_web_scrape" ELSE @,
                      !.setaside_type = record.setaside_type,
                      !.rfq_quote_status = record.rfq_quote_status,
                      !.issued_date = parse_date(record.issued, DefaultFormat),
                      !.links = << <<"solicitation_url", record.solicitation_url>> >>,
                      !.return_by_date =
                          IF FalsyA(@) THEN parse_date(record.return_by, DefaultFormat)
                          ELSE @,
                      !.clins =
                          IF k # 0
                          THEN [@ EXCEPT ![k] = WebEnhance(@, record, nomenclature,
                                                           ex.pr, final_quantity)]
                          ELSE Append(@, new_clin)]
        IN  [s0 EXCEPT ![i] = sol]

\* the debug counters of one web row (lines 535-537 and 619-624)
WebStats(stats, sols, record) ==
    LET sol_num == Strip(record.solicitation)
        sol_num_clean == Upper(Strip(sol_num))
    IN  IF sol_num = <<>> THEN stats
        ELSE IF KeyIndex(sols, sol_num_clean) # 0
             THEN [stats EXCEPT !.web_solicitations = @ \cup {sol_num},
                                !.matched_solicitations = @ \cup {sol_num_clean}]
             ELSE [stats EXCEPT !.web_solicitations = @ \cup {sol_num},
                                !.web_only = @ \cup {sol_num_clean}]

\* record.get('nsn_clean', clean_nsn): parse_in_file sets nsn_clean for a
\* non-empty nsn_part_number only (lines 383-384 and 740-741)
InNsnClean(record) ==
    IF record.nsn_part_number # <<>> THEN RemoveHyphens(record.nsn_part_number)
    ELSE clean_nsn(record.nsn_part_number)

\* the CLIN an index record leaves at a CLIN of the same NSN (lines 751-758)
InEnhance(existing_clin, record) ==
    [existing_clin EXCEPT
       !.nomenclature = IF FalsyS(@) THEN clean_nomenclature(record.nomenclature) ELSE @,
       !.pr_number = IF FalsyS(@) THEN record.purchase_request ELSE @,
       !.quantity = IF FalsyInt(@) THEN parse_int(record.quantity) ELSE @,
       !.unit_of_issue = IF FalsyA(@) THEN record.unit_issue ELSE @]

\* pass 3, one index record (lines 706-770)
InApply(sols, record) ==
    LET sol_num  == record.solicitation_number
        s0       == Ensure(sols, sol_num, "batch_files")
        i        == KeyIndex(s0, sol_num)
        setaside == decode_setaside(record.small_business_setaside)
        setaside_pct_str == Strip(record.setaside_percentage)
        setaside_pct == IF AllDigits(setaside_pct_str)
                        THEN DigitsValue(setaside_pct_str)
                        ELSE setaside.percentage
        nsn_clean == InNsnClean(record)
        k         == FindClin(s0[i].clins, nsn_clean)
        new_clin  == [clin |-> NoneS, nsn |-> nsn_clean,
                      part_number |-> record.nsn_part_number,
                      nomenclature |-> clean_nomenclature(record.nomenclature),
                      pr_number |-> record.purchase_request,
                      quantity |-> parse_int(record.quantity),
                      unit_of_issue |-> record.unit_issue,
                      unit_price |-> NoneInt, delivery_days |-> NoneInt,
                      technical_documents |-> <<>>, approved_sources |-> <<>>]
        sol == [s0[i] EXCEPT
                  !.small_business_setaside = setaside.code,
                  !.setaside_percentage = setaside_pct,
                  !.setaside_type = setaside.description,
                  !.return_by_date = parse_date(record.return_by_date, InFormat),
                  !.amsc = record.amsc,
                  !.clins = IF k # 0 THEN [@ EXCEPT ![k] = InEnhance(@, record)]
                            ELSE Append(@, new_clin)]
    IN  [s0 EXCEPT ![i] = sol]

\* a lookup keyed on the NSN as the file writes it, hyphens kept
AsLookupRaw(data, nsn) ==
    LET Same(r) == r.nsn = nsn IN SelectSeq(data, Same)

\* as_lookup.get(nsn, []): the records whose NSN without hyphens is nsn,
\* in file order (lines 540-545)
AsLookup(data, nsn) ==
    LET Same(r) == RemoveHyphens(r.nsn) = nsn IN SelectSeq(data, Same)

\* a pass 4 that takes the supplier part number whatever the CLIN's part
\* number is
AsClinAlways(clin, data) ==
    LET from_nsn == AsLookup(data, clin.nsn)
        approved_sources ==
            [j \in 1..Len(from_nsn) |->
               [supplier_cage_code |-> from_nsn[j].supplier_cage_code,
                supplier_part_number |-> from_nsn[j].supplier_part_number]]
    IN  IF clin.nsn # <<>> /\ from_nsn # <<>>
        THEN [clin EXCEPT
                !.approved_sources = approved_sources,
                !.part_number = approved_sources[1].supplier_part_number]
        ELSE clin

\* pass 4 at one CLIN (lines 775-793)
AsClin(clin, data) ==
    LET from_nsn == AsLookup(data, clin.nsn)
        approved_sources ==
            [j \in 1..Len(from_nsn) |->
               [supplier_cage_code |-> from_nsn[j].supplier_cage_code,
                supplier_part_number |-> from_nsn[j].supplier_part_number]]
        current_part == RemoveHyphens(clin.part_number)
    IN  IF clin.nsn # <<>> /\ from_nsn # <<>>
        THEN [clin EXCEPT
                !.approved_sources = approved_sources,
                !.part_number = IF AllDigits(current_part) \/ FalsyS(@)
                                THEN approved_sources[1].supplier_part_number
                                ELSE @]
        ELSE clin

\* pass 4 (lines 773-793)
AsApply(sols, data) ==
    [i \in 1..Len(sols) |->
       [sols[i] EXCEPT !.clins = [k \in 1..Len(@) |-> AsClin(@[k], data)]]]

\* number of records in the items of bq_lookup
RECURSIVE BqCount(_)
BqCount(items) ==
    IF items = <<>> THEN 0 ELSE Len(Head(items).records) + BqCount(Tail(items))

\* number of rows read so far
RowsRead == BqCount(bq_lookup) + Len(web_data) + Len(in_data)

MergeInit ==
    /\ mpc = "start"
    /\ MergeLocalsInit
    /\ CrawlIdle
    /\ SessIdle
    /\ PdIdle
    /\ ParseIdle
    /\ HtmlIdle
    /\ DlIdle
    /\ HistIdle

\* pass 1 handles the next item of bq_lookup: the records of one
\* (solicitation_number, line_number), in file order
MergeBq ==
    /\ mpc \in {"start", "bq"}
    /\ RowsRead < MaxRows
    /\ \E sol \in BqSolNumbers, line \in BqLineNumbers, n \in 1..(MaxRows - RowsRead) :
         \E kinds \in [1..n -> BqKinds] :
           LET key     == <<sol, line>>
               records == [j \in 1..n |-> BqRow(sol, line, kinds[j])]
           IN  /\ \A g \in DOMAIN bq_lookup : bq_lookup[g].key # key
               /\ bq_lookup' = Append(bq_lookup, [key |-> key, records |-> records])
               /\ solicitations' = BqApply(solicitations, key, records)
               /\ debug_stats' = [debug_stats EXCEPT !.bq_solicitations = @ \cup {sol}]
    /\ mpc' = "bq"
    /\ UNCHANGED <<web_data, in_data, as_data, merged>>
    /\ UNCHANGED nonMerge

\* pass 2 handles the next web row
MergeWeb ==
    /\ mpc \in {"start", "bq", "web"}
    /\ RowsRead < MaxRows
    /\ \E record \in WebRows :
         /\ web_data' = Append(web_data, record)
         /\ solicitations' = WebApply(solicitations, record)
         /\ debug_stats' = WebStats(debug_stats, solicitations, record)
    /\ mpc' = "web"
    /\ UNCHANGED <<bq_lookup, in_data, as_data, merged>>
    /\ UNCHANGED nonMerge

\* pass 3 handles the next index record
MergeIn ==
    /\ mpc \in {"start", "bq", "web", "in"}
    /\ RowsRead < MaxRows
    /\ \E record \in InRows :
         /\ in_data' = Append(in_data, record)
         /\ solicitations' = InApply(solicitations, record)
    /\ mpc' = "in"
    /\ UNCHANGED <<bq_lookup, web_data, as_data, debug_stats, merged>>
    /\ UNCHANGED nonMerge

\* the input lists are exhausted: pass 4 attaches the approved sources,
\* bq_only is computed and the values of solicitations are returned
MergeAs ==
    /\ mpc \in {"start", "bq", "web", "in"}
    /\ \E data \in AsInputs :
         /\ as_data' = data
         /\ solicitations' = AsApply(solicitations, data)
         /\ merged' = AsApply(solicitations, data)
    /\ debug_stats' = [debug_stats EXCEPT
                         !.bq_only = debug_stats.bq_solicitations
                                       \ debug_stats.matched_solicitations]
    /\ mpc' = "done"
    /\ UNCHANGED <<bq_lookup, web_data, in_data>>
    /\ UNCHANGED nonMerge

MergeNext ==
    \/ MergeBq
    \/ MergeWeb
    \/ MergeIn
    \/ MergeAs

SpecMerge == MergeInit /\ [][MergeNext]_vars

(***************************************************************************)
(* Claims about merge_data_sources                                         *)
(***************************************************************************)
\* the cleaned form of a solicitation number: trimmed, uppercased,
\* hyphen-free
CleanedId(sol_num) == RemoveHyphens(Upper(Strip(sol_num)))

\* C1: the merge holds at most one Solicitation per cleaned identifier,
\* whichever of the batch-quote, web and index sources its rows come from:
\* no two values of solicitations have the same cleaned solicitation number.
C1_OneSolicitationPerCleanedId ==
    \A i, j \in DOMAIN solicitations :
        CleanedId(solicitations[i].solicitation_number)
          = CleanedId(solicitations[j].solicitation_number) => i = j

\* a field that held a value still holds one
KeptS(a, b) == ~FalsyS(a) => ~FalsyS(b)

KeptA(a, b) == ~FalsyA(a) => ~FalsyA(b)

KeptInt(a, b) == a # NoneInt => b # NoneInt

KeptList(a, b) == a # <<>> => b # <<>>

KeptClin(c, d) ==
    /\ KeptS(c.clin, d.clin)
    /\ KeptS(c.nsn, d.nsn)
    /\ KeptS(c.part_number, d.part_number)
    /\ KeptS(c.nomenclature, d.nomenclature)
    /\ KeptS(c.pr_number, d.pr_number)
    /\ KeptInt(c.quantity, d.quantity)
    /\ KeptA(c.unit_of_issue, d.unit_of_issue)
    /\ KeptInt(c.unit_price, d.unit_price)
    /\ KeptInt(c.delivery_days, d.delivery_days)
    /\ KeptList(c.technical_documents, d.technical_documents)
    /\ KeptList(c.approved_sources, d.approved_sources)

KeptSolicitation(a, b) ==
    /\ a.solicitation_number = b.solicitation_number
    /\ KeptA(a.solicitation_type, b.solicitation_type)
    /\ KeptA(a.small_business_setaside, b.small_business_setaside)
    /\ KeptA(a.additional_clause_fillins, b.additional_clause_fillins)
    /\ KeptA(a.return_by_date, b.return_by_date)
    /\ KeptA(a.setaside_type, b.setaside_type)
    /\ KeptA(a.rfq_quote_status, b.rfq_quote_status)
    /\ KeptA(a.issued_date, b.issued_date)
    /\ KeptList(a.links, b.links)
    /\ KeptInt(a.setaside_percentage, b.setaside_percentage)
    /\ KeptA(a.amsc, b.amsc)
    /\ KeptList(a.raw_batch_quote_data, b.raw_batch_quote_data)
    /\ Len(a.clins) <= Len(b.clins)
    /\ \A k \in DOMAIN a.clins : KeptClin(a.clins[k], b.clins[k])

\* C2: a later row or pass never empties or removes a non-empty field or
\* attached data that an earlier row or pass supplied for a solicitation:
\* in every step each Solicitation stays, with every non-empty field and
\* every non-empty field of each of its CLINs still non-empty.
C2_NothingEmptied ==
    [][\A i \in DOMAIN solicitations :
          /\ i \in DOMAIN solicitations'
          /\ KeptSolicitation(solicitations[i], solicitations'[i])]_vars

\* the approved-source records of an NSN, compared without hyphens, in
\* file order, as the pairs a CLIN carries
SourcesOf(nsn) ==
    LET Same(r) == RemoveHyphens(r.nsn) = RemoveHyphens(nsn)
        found   == SelectSeq(as_data, Same)
    IN  [j \in 1..Len(found) |->
           [supplier_cage_code |-> found[j].supplier_cage_code,
            supplier_part_number |-> found[j].supplier_part_number]]

\* C9 as stated: in the returned list every CLIN whose hyphen-stripped NSN
\* equals the hyphen-stripped NSN of an approved-source row carries the
\* full list of that NSN's approved sources, and every other CLIN carries
\* none.
C9_ApprovedSourcesByNsn ==
    mpc = "done" =>
        \A i \in DOMAIN merged : \A k \in DOMAIN merged[i].clins :
            merged[i].clins[k].approved_sources = SourcesOf(merged[i].clins[k].nsn)

\* C9, amended: in the returned list every CLIN with a non-empty NSN whose
\* hyphen-stripped NSN equals that of an approved-source row carries the
\* full list of that NSN's approved sources, across all solicitations and
\* whichever pass made the CLIN; a CLIN whose NSN is empty or matches no
\* approved-source row carries none.
C9_ApprovedSourcesByNonEmptyNsn ==
    mpc = "done" =>
        \A i \in DOMAIN merged : \A k \in DOMAIN merged[i].clins :
            LET clin == merged[i].clins[k]
            IN  clin.approved_sources =
                  (IF clin.nsn # <<>> THEN SourcesOf(clin.nsn) ELSE <<>>)

\* two solicitations, one of them made by the web pass alone, each with a
\* CLIN that carries both approved sources of its NSN; one of the two
\* source rows writes the NSN with a hyphen
C9_Witness ==
    /\ mpc = "done"
    /\ as_data = <<AS2, AS1>>
    /\ \E i, j \in DOMAIN merged :
         /\ i # j
         /\ merged[i].data_source = "web_scrape"
         /\ \E k \in DOMAIN merged[i].clins :
              Len(merged[i].clins[k].approved_sources) = 2
         /\ \E k \in DOMAIN merged[j].clins :
              Len(merged[j].clins[k].approved_sources) = 2

\* the CLINs of the Solicitations of a cleaned identifier, as the set of
\* their positions
ClinsOfId(sols, id) ==
    UNION {{<<i, k>> : k \in DOMAIN sols[i].clins} :
             i \in {h \in DOMAIN sols : CleanedId(sols[h].solicitation_number) = id}}

\* the step of a web row with a solicitation number: if a CLIN of its
\* Solicitation has the row's cleaned NSN no CLIN is appended, else
\* exactly one, with no line number
WebRowStep ==
    web_data' # web_data =>
        LET record == web_data'[Len(web_data')]
            id     == CleanedId(record.solicitation)
            nsn    == clean_nsn(record.nsn_part_number)
            before == ClinsOfId(solicitations, id)
            after  == ClinsOfId(solicitations', id)
        IN  id # <<>> =>
              IF \E p \in before : solicitations[p[1]].clins[p[2]].nsn = nsn
              THEN Cardinality(after) = Cardinality(before)
              ELSE /\ Cardinality(after) = Cardinality(before) + 1
                   /\ \E p \in after \ before :
                        /\ solicitations'[p[1]].clins[p[2]].clin = NoneS
                        /\ solicitations'[p[1]].clins[p[2]].nsn = nsn

\* one batch-quote row and one web row of the same cleaned solicitation
\* number, of different NSNs, and no other row
OneBqOneWebRow ==
    /\ Len(bq_lookup) = 1
    /\ Len(bq_lookup[1].records) = 1
    /\ Len(web_data) = 1
    /\ in_data = <<>>
    /\ CleanedId(web_data[1].solicitation) # <<>>
    /\ CleanedId(web_data[1].solicitation) = CleanedId(bq_lookup[1].key[1])
    /\ clean_nsn(web_data[1].nsn_part_number)
         # RemoveHyphens(bq_lookup[1].records[1].nsn_part_number)

\* C10: a web row whose cleaned NSN is the NSN of no CLIN of its
\* Solicitation appends exactly one CLIN with no line number, a web row
\* whose NSN matches a CLIN appends none; so one batch-quote row and one
\* web row of a different NSN for the same cleaned solicitation number give
\* one Solicitation with exactly 2 CLINs.
C10_WebRowAppendsOneClinOrNone ==
    /\ [][WebRowStep]_vars
    /\ [](OneBqOneWebRow =>
            \E i \in DOMAIN solicitations :
               /\ CleanedId(solicitations[i].solicitation_number)
                    = CleanedId(web_data[1].solicitation)
               /\ Len(solicitations[i].clins) = 2)

\* a token QTY: <digits with commas> starts at position i of the text:
\* the letters in either case, then blanks, then a digit
TokenAt(s, i) ==
    /\ i + 3 <= Len(s)
    /\ <<UpperOf(s[i]), UpperOf(s[i + 1]), UpperOf(s[i + 2]), s[i + 3]>>
         = <<"Q", "T", "Y", ":">>
    /\ \E d \in (i + 4)..Len(s) :
         /\ IsDigit(s[d])
         /\ \A h \in (i + 4)..(d - 1) : s[h] = " "

\* the first digit of the token that starts at position i
TokenFirstDigit(s, i) ==
    CHOOSE d \in (i + 4)..Len(s) :
       IsDigit(s[d]) /\ \A h \in (i + 4)..(d - 1) : s[h] = " "

\* s[d..e] is digits with commas: digits and single commas between digits
DigitsWithCommas(s, d, e) ==
    /\ IsDigit(s[d])
    /\ IsDigit(s[e])
    /\ \A h \in d..e : IsDigit(s[h]) \/ s[h] = ","
    /\ \A h \in d..(e - 1) : ~(s[h] = "," /\ s[h + 1] = ",")

\* the last position of the digits with commas that start at position d
TokenLast(s, d) ==
    CHOOSE e \in d..Len(s) :
       /\ DigitsWithCommas(s, d, e)
       /\ \A h \in (e + 1)..Len(s) : ~DigitsWithCommas(s, d, h)

\* the number a text of digits denotes, read from its last digit
RECURSIVE NumberOf(_)
NumberOf(digits) ==
    IF digits = <<>> THEN 0
    ELSE 10 * NumberOf(SubSeq(digits, 1, Len(digits) - 1))
         + DigitVal(digits[Len(digits)])

\* what the claim expects of a purchase-request text with exactly one
\* token: the text without the token, trimmed, and the number of the token
ExpectedOfToken(s) ==
    LET i == CHOOSE h \in DOMAIN s : TokenAt(s, h)
        d == TokenFirstDigit(s, i)
        e == TokenLast(s, d)
    IN  [pr  |-> Strip(Strip(SubSeq(s, 1, i - 1)) \o Strip(SubSeq(s, e + 1, Len(s)))),
         qty |-> NumberOf(SelectSeq(SubSeq(s, d, e), IsDigit))]

\* what the claim expects of a web row: PR number and quantity
ExpectedOfRow(row) ==
    IF Cardinality({h \in DOMAIN row.purchase_request :
                       TokenAt(row.purchase_request, h)}) = 1
    THEN ExpectedOfToken(row.purchase_request)
    ELSE [pr |-> Strip(row.purchase_request), qty |-> parse_int(row.quantity)]

\* a step of the web pass writes, as quantity and PR number of a CLIN,
\* nothing but what the claim expects of the row
WebRowQuantityStep ==
    web_data' # web_data =>
      LET row      == web_data'[Len(web_data')]
          expected == ExpectedOfRow(row)
      IN  \A i \in DOMAIN solicitations' :
            \A k \in DOMAIN solicitations'[i].clins :
              LET after == solicitations'[i].clins[k]
              IN  IF i \in DOMAIN solicitations /\ k \in DOMAIN solicitations[i].clins
                  THEN LET before == solicitations[i].clins[k]
                       IN  /\ after.quantity \in {before.quantity, expected.qty}
                           /\ after.pr_number \in {before.pr_number, expected.pr}
                  ELSE /\ after.quantity = expected.qty
                       /\ after.pr_number = expected.pr

\* C16: for purchase-request text that holds a token QTY: <digits with
\* commas>, the merge takes the quantity from the token, commas removed,
\* in place of the raw quantity of the row, and strips the token from the
\* PR number (PR12345 QTY: 1,200 gives PR12345 and 1200); text without a
\* token is kept trimmed and the raw quantity is used.
C16_QuantityFromPurchaseRequest == [][WebRowQuantityStep]_vars

\* a CLIN made from the row PR12345 QTY: 1,200 with raw quantity 7, and a
\* CLIN made from a row without token
C16_Witness ==
    /\ \E i \in DOMAIN solicitations :
         \E k \in DOMAIN solicitations[i].clins :
            /\ solicitations[i].clins[k].quantity = 1200
            /\ solicitations[i].clins[k].pr_number = <<"P", "R", "1", "2", "3", "4", "5">>
    /\ \E i \in DOMAIN solicitations :
         \E k \in DOMAIN solicitations[i].clins :
            /\ solicitations[i].clins[k].quantity = 6
            /\ solicitations[i].clins[k].pr_number = <<"R", "4">>

\* the solicitation identifiers present in the inputs read: the cleaned
\* solicitation numbers of the batch-quote, web and index rows
InputIds ==
    ({CleanedId(bq_lookup[g].key[1]) : g \in DOMAIN bq_lookup}
     \cup {CleanedId(web_data[g].solicitation) : g \in DOMAIN web_data}
     \cup {CleanedId(in_data[g].solicitation_number) : g \in DOMAIN in_data})
    \ {<<>>}

\* C17: merge_data_sources completes without error whichever of its four
\* inputs are empty, and its result holds a Solicitation for every
\* solicitation identifier present in the inputs that are not empty: a
\* missing source removes its own contribution only.
C17_PartialMerge ==
    /\ mpc \in {"start", "bq", "web", "in"} => ENABLED MergeAs
    /\ mpc = "done" =>
         \A id \in InputIds :
           \E i \in DOMAIN merged : CleanedId(merged[i].solicitation_number) = id

\* a merge of web rows alone, the other three inputs being empty, that
\* returned Solicitations for two identifiers
C17_Witness ==
    /\ mpc = "done"
    /\ bq_lookup = <<>>
    /\ in_data = <<>>
    /\ as_data = <<>>
    /\ Cardinality(InputIds) = 2
    /\ Len(merged) >= 2

\* C19: session establishment retries a failed network request with delays
\* that double after each failed attempt (1, 2, ...) up to the attempt cap,
\* does not sleep after the final attempt, and reports the failure only
\* once the cap is exhausted.
C19_RetriesWithBackoff ==
    /\ \A i \in DOMAIN sleeps : sleeps[i] = 2 ^ (i - 1)
    /\ Len(sleeps) = attempt
    /\ attempt <= SessMaxRetries - 1
    /\ (spc = "raised" /\ s_exc = "RequestException")
       => attempt = SessMaxRetries - 1

\* C20: between any two successive page requests of a crawl a blocking
\* delay is executed (and likewise between two successive document
\* downloads): after each request but the last the crawl has slept.
C20_DelayBetweenRequests ==
    \A i \in 1..(Len(requests) - 1) : \E j \in DOMAIN slept : slept[j] = i

\* the CLINs of a Solicitation that have the NSN of a row, written
\* without hyphens
SameNsnClins(sol, nsn_text) ==
    {k \in DOMAIN sol.clins : sol.clins[k].nsn = RemoveHyphens(Strip(nsn_text))}

\* a row with the given solicitation number and NSN arrives while several
\* CLINs of the Solicitation of that number have that NSN: no Solicitation
\* and no CLIN is added, and every CLIN but the first of them is unchanged
AmbiguousRowStep(sol_num, nsn_text) ==
    \A i \in DOMAIN solicitations :
      LET same == SameNsnClins(solicitations[i], nsn_text)
      IN  (/\ solicitations[i].solicitation_number = Strip(sol_num)
           /\ Cardinality(same) >= 2)
          => /\ Len(solicitations') = Len(solicitations)
             /\ \A j \in DOMAIN solicitations :
                  /\ Len(solicitations'[j].clins) = Len(solicitations[j].clins)
                  /\ \A k \in DOMAIN solicitations[j].clins :
                       (j # i \/ \E h \in same : h < k)
                       => solicitations'[j].clins[k] = solicitations[j].clins[k]

\* C18: when several CLINs of one Solicitation have the NSN of an incoming
\* web or index row, the row enriches the first-registered of them only:
\* no new CLIN is created, the other CLINs are unchanged and no error is
\* raised.
C18_FirstClinWins ==
    [][/\ web_data' # web_data =>
            AmbiguousRowStep(web_data'[Len(web_data')].solicitation,
                             web_data'[Len(web_data')].nsn_part_number)
       /\ in_data' # in_data =>
            AmbiguousRowStep(in_data'[Len(in_data')].solicitation_number,
                             in_data'[Len(in_data')].nsn_part_number)]_vars

\* a Solicitation with two batch-quote CLINs of one NSN, the first of which
\* a web row gave its documents while the second has none
C18_Witness ==
    \E i \in DOMAIN solicitations :
       /\ Len(solicitations[i].clins) = 2
       /\ solicitations[i].clins[1].nsn = solicitations[i].clins[2].nsn
       /\ solicitations[i].clins[1].clin # NoneS
       /\ solicitations[i].clins[1].technical_documents # <<>>
       /\ solicitations[i].clins[2].technical_documents = <<>>
       /\ web_data # <<>>

\* a field that holds a value keeps it
HeldS(a, b) == ~FalsyS(a) => b = a

HeldA(a, b) == ~FalsyA(a) => b = a

HeldInt(a, b) == a # NoneInt => b = a

\* CLIN c before and d after a web or index row: the line number, NSN, part
\* number, unit price and delivery days are as before and so is every field
\* that held a value
EnrichedOnly(c, d) ==
    /\ d.clin = c.clin
    /\ d.nsn = c.nsn
    /\ d.part_number = c.part_number
    /\ d.unit_price = c.unit_price
    /\ d.delivery_days = c.delivery_days
    /\ HeldS(c.nomenclature, d.nomenclature)
    /\ HeldS(c.pr_number, d.pr_number)
    /\ HeldInt(c.quantity, d.quantity)
    /\ HeldA(c.unit_of_issue, d.unit_of_issue)
    /\ c.approved_sources # <<>> => d.approved_sources = c.approved_sources

\* and so are the technical documents it held
EnrichedOnlyAll(c, d) ==
    /\ EnrichedOnly(c, d)
    /\ c.technical_documents # <<>> => d.technical_documents = c.technical_documents

\* C24: when a web or index row matches an existing CLIN, nomenclature, PR
\* number and quantity (and unit of issue for index rows) are written only
\* if empty; every field that already holds a value, and the line number,
\* NSN, part number, unit price and delivery days, are left unchanged.
C24_FillOnlyEmptyFields ==
    [][(web_data' # web_data \/ in_data' # in_data) =>
          \A j \in DOMAIN solicitations : \A k \in DOMAIN solicitations[j].clins :
             /\ EnrichedOnlyAll(solicitations[j].clins[k], solicitations'[j].clins[k])
             /\ web_data' # web_data =>
                  solicitations'[j].clins[k].unit_of_issue
                      = solicitations[j].clins[k].unit_of_issue]_vars

\* the web rows read so far that belong to the Solicitation stored under
\* sol_num
WebRowsOf(sol_num) ==
    {i \in DOMAIN web_data :
        /\ Strip(web_data[i].solicitation) # <<>>
        /\ Upper(Strip(web_data[i].solicitation)) = sol_num}

\* the issued date, set-aside type label, status and link of sol are those
\* of one of the web rows in ws
FromWebRows(sol, ws) ==
    /\ \E i \in ws : sol.issued_date = parse_date(web_data[i].issued, DefaultFormat)
    /\ \E i \in ws : sol.rfq_quote_status = web_data[i].rfq_quote_status
    /\ \E i \in ws :
          sol.links = << <<"solicitation_url", web_data[i].solicitation_url>> >>

SetAsideFromWebRows(sol, ws) ==
    \E i \in ws : sol.setaside_type = web_data[i].setaside_type

\* a web row is merged: a return-by date that was set stays, one that was
\* not set is the row's
ReturnByStep ==
    LET row == web_data'[Len(web_data')]
        num == Upper(Strip(row.solicitation))
    IN  \A j \in DOMAIN solicitations' :
          solicitations'[j].solicitation_number = num /\ Strip(row.solicitation) # <<>>
          => IF j \in DOMAIN solicitations
                /\ ~FalsyA(solicitations[j].return_by_date)
             THEN solicitations'[j].return_by_date = solicitations[j].return_by_date
             ELSE solicitations'[j].return_by_date
                      = parse_date(row.return_by, DefaultFormat)

\* C25: web data is authoritative for the solicitation-level temporal and
\* status fields: at the end of merge every Solicitation with at least one
\* web row has the issued date, set-aside type label, status and link URL
\* of its web data, and its return-by date comes from a web row only when
\* no earlier pass had set it.
C25_WebAuthoritative ==
    [][/\ mpc' = "done" =>
            \A j \in DOMAIN merged' :
               LET ws == WebRowsOf(merged'[j].solicitation_number)
               IN  ws # {} => /\ FromWebRows(merged'[j], ws)
                              /\ SetAsideFromWebRows(merged'[j], ws)
       /\ web_data' # web_data => ReturnByStep]_vars

\* the batch-quote rows of the Solicitation stored under sol_num, group
\* after group
RECURSIVE BqRowsOf(_, _)
BqRowsOf(items, sol_num) ==
    IF items = <<>> THEN <<>>
    ELSE (IF Upper(Strip(Head(items).key[1])) = sol_num
          THEN Head(items).records ELSE <<>>)
         \o BqRowsOf(Tail(items), sol_num)

\* text is line with zeros in front up to a length of 4
ZeroPadded(text, line) ==
    /\ Len(text) = Max(4, Len(line))
    /\ \A i \in 1..(Len(text) - Len(line)) : text[i] = "0"
    /\ \A i \in DOMAIN line : text[Len(text) - Len(line) + i] = line[i]

\* the header fields of sol are those of the first row of a group
HeaderOfGroup(sol, group) ==
    LET first == group.records[1]
    IN  /\ Upper(Strip(group.key[1])) = sol.solicitation_number
        /\ sol.solicitation_type = first.solicitation_type
        /\ sol.small_business_setaside = first.small_business_setaside
        /\ sol.additional_clause_fillins =
              (IF first.additional_clause_fillins = "Y" THEN "True" ELSE "False")
        /\ sol.return_by_date = parse_date(first.return_by_date, DefaultFormat)

\* C26: after the batch-quote pass each Solicitation has exactly one CLIN
\* per batch-quote row of that solicitation, in group order, each with the
\* row's line number zero-padded to 4 digits and the hyphen-stripped NSN;
\* its header fields come from the first row of a group; and the raw rows
\* retained on it are exactly those rows, one per CLIN.
C26_OneClinPerBatchQuoteRow ==
    (mpc = "bq" /\ web_data = <<>> /\ in_data = <<>>) =>
       /\ \A g \in DOMAIN bq_lookup : \E j \in DOMAIN solicitations :
             solicitations[j].solicitation_number = Upper(Strip(bq_lookup[g].key[1]))
       /\ \A j \in DOMAIN solicitations :
             LET sol == solicitations[j]
                 rs  == BqRowsOf(bq_lookup, sol.solicitation_number)
             IN  /\ Len(sol.clins) = Len(rs)
                 /\ \A k \in DOMAIN rs :
                       /\ ZeroPadded(sol.clins[k].clin, rs[k].line_number)
                       /\ sol.clins[k].nsn = RemoveHyphens(rs[k].nsn_part_number)
                       /\ sol.clins[k].part_number = rs[k].nsn_part_number
                 /\ \E g \in DOMAIN bq_lookup : HeaderOfGroup(sol, bq_lookup[g])
                 /\ sol.raw_batch_quote_data = rs

\* a Solicitation made of two groups, three rows in all
C26_Witness ==
    /\ mpc = "bq"
    /\ Len(bq_lookup) = 2
    /\ Len(solicitations) = 1
    /\ Len(solicitations[1].clins) = 3
    /\ solicitations[1].clins[3].clin = <<"0", "0", "0", "2">>
    /\ solicitations[1].clins[1].nsn = <<"1", "2">>

\* CLIN c before and d after pass 4, where numeric says whether the part
\* number of c counts as numeric: a CLIN that received approved sources
\* takes the first one's supplier part number exactly when its part number
\* is empty or numeric, and a CLIN that received none is as before
PartNumberRule(c, d, numeric) ==
    IF d.approved_sources # <<>>
    THEN /\ d = [c EXCEPT !.approved_sources = d.approved_sources,
                          !.part_number = d.part_number]
         /\ d.part_number =
               (IF FalsyS(c.part_number) \/ numeric
                THEN d.approved_sources[1].supplier_part_number
                ELSE c.part_number)
    ELSE d = c

\* C27 as stated: in the approved-source pass a CLIN that received approved
\* sources has its part number replaced by the first approved source's
\* supplier part number exactly when its part number is empty or purely
\* numeric; otherwise the part number is unchanged, and a CLIN with no
\* matching approved source is not changed at all.
C27_PartNumberIfNumeric ==
    [][mpc' = "done" =>
         \A j \in DOMAIN solicitations : \A k \in DOMAIN solicitations[j].clins :
            PartNumberRule(solicitations[j].clins[k], merged'[j].clins[k],
                           AllDigits(solicitations[j].clins[k].part_number))]_vars

\* C27 amended: the part number is replaced exactly when it is empty or
\* purely numeric once its hyphens are removed.
C27_PartNumberIfNumericWithoutHyphens ==
    [][mpc' = "done" =>
         \A j \in DOMAIN solicitations : \A k \in DOMAIN solicitations[j].clins :
            PartNumberRule(solicitations[j].clins[k], merged'[j].clins[k],
                           AllDigits(RemoveHyphens(
                              solicitations[j].clins[k].part_number)))]_vars

\* one CLIN took the supplier part number in place of its hyphenated
\* stock number, another kept its part number beside its approved sources
C27_Witness ==
    /\ mpc = "done"
    /\ \E j \in DOMAIN merged : \E k \in DOMAIN merged[j].clins :
          /\ merged[j].raw_batch_quote_data # <<>>
          /\ merged[j].clins[k].nsn = <<"1", "2">>
          /\ merged[j].clins[k].part_number = <<"V", "1">>
    /\ \E j \in DOMAIN merged : \E k \in DOMAIN merged[j].clins :
          /\ merged[j].clins[k].approved_sources # <<>>
          /\ merged[j].clins[k].part_number = <<"P", "9">>

\* the web row merged by this step
NewWebRow == web_data'[Len(web_data')]

\* the Solicitations stored under the number num
StoredUnder(sols, num) ==
    {j \in DOMAIN sols : sols[j].solicitation_number = num}

\* C28 as stated: a web row whose cleaned solicitation number is already in
\* the working map marks that Solicitation's source tag as combined, and a
\* web row whose number is absent creates the Solicitation with the web
\* source tag.
C28_WebRowTagsCombined ==
    [][web_data' # web_data =>
         LET num == CleanedId(NewWebRow.solicitation)
         IN  IF StoredUnder(solicitations, num) # {}
             THEN \A j \in StoredUnder(solicitations, num) :
                     solicitations'[j].data_source = "batch_quote_and_web_scrape"
             ELSE /\ Len(solicitations') = Len(solicitations) + 1
                  /\ solicitations'[Len(solicitations')].solicitation_number = num
                  /\ solicitations'[Len(solicitations')].data_source = "web_scrape"]_vars

\* C28 amended: a web row with a solicitation number whose trimmed and
\* uppercased number is already in the working map turns a batch-quote
\* source tag into the combined tag and leaves any other tag as it is; one
\* whose number is absent creates the Solicitation with the web source tag;
\* a row without solicitation number changes nothing.
C28_WebRowTagsBatchQuoteCombined ==
    [][web_data' # web_data =>
         LET num == Upper(Strip(NewWebRow.solicitation))
         IN  IF num = <<>> THEN solicitations' = solicitations
             ELSE IF StoredUnder(solicitations, num) # {}
             THEN /\ Len(solicitations') = Len(solicitations)
                  /\ \A j \in StoredUnder(solicitations, num) :
                       solicitations'[j].data_source =
                          (IF solicitations[j].data_source = "batch_quote"
                           THEN "batch_quote_and_web_scrape"
                           ELSE solicitations[j].data_source)
             ELSE /\ Len(solicitations') = Len(solicitations) + 1
                  /\ solicitations'[Len(solicitations')].solicitation_number = num
                  /\ solicitations'[Len(solicitations')].data_source = "web_scrape"]_vars

\* web rows have both made a batch-quote Solicitation combined and created
\* a Solicitation of their own
C28_Witness ==
    /\ Len(web_data) = 2
    /\ \E j \in DOMAIN solicitations :
          solicitations[j].data_source = "batch_quote_and_web_scrape"
    /\ \E j \in DOMAIN solicitations : solicitations[j].data_source = "web_scrape"

\* the cleaned identifiers of the web rows and of the batch-quote rows read
WebIds ==
    {CleanedId(web_data[i].solicitation) :
        i \in {h \in DOMAIN web_data : Strip(web_data[h].solicitation) # <<>>}}

BqIds == {CleanedId(bq_lookup[g].key[1]) : g \in DOMAIN bq_lookup}

\* the three sets are pairwise disjoint
StatsDisjoint ==
    /\ debug_stats.web_only \cap debug_stats.bq_only = {}
    /\ debug_stats.web_only \cap debug_stats.matched_solicitations = {}
    /\ debug_stats.bq_only \cap debug_stats.matched_solicitations = {}

\* 'both' is the set of cleaned identifiers present in both sources
StatsBothExact == debug_stats.matched_solicitations = WebIds \cap BqIds

\* C29: the merge statistics partition the solicitations seen in the web
\* and batch-quote sources: web-only, batch-quote-only and both are
\* pairwise disjoint and 'both' is exactly the set of cleaned identifiers
\* present in both sources.
C29_StatisticsPartition ==
    mpc = "done" => StatsDisjoint /\ StatsBothExact

\* C35: every Solicitation merge_data_sources returns has a non-empty
\* solicitation number: a row of any source whose solicitation number is
\* empty creates no Solicitation.
C35_NumberNotEmpty ==
    mpc = "done" => \A j \in DOMAIN merged : merged[j].solicitation_number # <<>>

\* the CLINs of sol made from batch-quote rows are its first CLINs, one per
\* batch-quote row read for its number: exactly these carry a line number
NumberedAreBatchQuote(sol) ==
    \A k \in DOMAIN sol.clins :
       (sol.clins[k].clin # NoneS) <=>
          k <= Len(BqRowsOf(bq_lookup, sol.solicitation_number))

\* a CLIN without line number has an NSN no CLIN before it in the list has
\* (CLINs are appended, so the CLINs before it are those that existed when
\* it was created)
UnnumberedAreNew(sol) ==
    \A k \in DOMAIN sol.clins :
       sol.clins[k].clin = NoneS =>
          \A h \in 1..(k - 1) : sol.clins[h].nsn # sol.clins[k].nsn

\* C36: within each merged Solicitation only the CLINs created from
\* batch-quote rows carry a line number, and the CLINs without a line number
\* (created by the web or index pass) have pairwise distinct NSNs, none of
\* them equal to the NSN of a CLIN that already existed when they were
\* created.
C36_UnnumberedClinsDistinct ==
    /\ \A j \in DOMAIN solicitations :
          /\ NumberedAreBatchQuote(solicitations[j])
          /\ UnnumberedAreNew(solicitations[j])
    /\ mpc = "done" =>
          \A j \in DOMAIN merged :
             /\ NumberedAreBatchQuote(merged[j])
             /\ UnnumberedAreNew(merged[j])

\* a merged Solicitation with a batch-quote CLIN, a CLIN a web row created
\* and a CLIN an index record created
C36_Witness ==
    /\ mpc = "done"
    /\ Len(web_data) = 1
    /\ Len(in_data) = 1
    /\ \E j \in DOMAIN merged :
          /\ Len(merged[j].clins) = 3
          /\ merged[j].clins[1].clin # NoneS
          /\ merged[j].clins[2].clin = NoneS
          /\ merged[j].clins[3].clin = NoneS
          /\ merged[j].raw_batch_quote_data # <<>>

\* the index record merged by this step
NewInRow == in_data'[Len(in_data')]

\* the web row of this step was merged before, and no web row since then
\* was of the same Solicitation
SameWebRowBefore ==
    \E h \in DOMAIN web_data :
       /\ web_data[h] = NewWebRow
       /\ \A g \in (h + 1)..Len(web_data) :
             Upper(Strip(web_data[g].solicitation)) # Upper(Strip(NewWebRow.solicitation))

\* the index record of this step was merged before, and no index record
\* since then was of the same Solicitation
SameInRowBefore ==
    \E h \in DOMAIN in_data :
       /\ in_data[h] = NewInRow
       /\ \A g \in (h + 1)..Len(in_data) :
             in_data[g].solicitation_number # NewInRow.solicitation_number

MaxLines == 3

\* "if len(parts) >= 48" of parse_bq_file
BqMinParts == 48

\* "if len(parts) >= 3" of parse_as_file
AsMinParts == 3

\* "if len(line) >= 137" of process_in_file
LocalMinLength == 137

\* line[a:b]
Slice(line, a, b) ==
    IF a + 1 > Min(b, Len(line)) THEN <<>> ELSE SubSeq(line, a + 1, Min(b, Len(line)))

\* p.strip('"')
RECURSIVE StripQuotes(_)
StripQuotes(p) ==
    IF p # <<>> /\ Head(p) = "\"" THEN StripQuotes(Tail(p))
    ELSE IF p # <<>> /\ p[Len(p)] = "\"" THEN StripQuotes(SubSeq(p, 1, Len(p) - 1))
    ELSE p

\* in_quotes of parse_bq_file after the first i characters of the line:
\* every double quote toggles it
InQuotesAfter(line, i) == Cardinality({h \in 1..i : line[h] = "\""}) % 2 = 1

\* the positions at which the loop runs "parts.append(current)": the
\* commas read while in_quotes is false
FieldEnds(line) ==
    {i \in DOMAIN line : line[i] = "," /\ ~InQuotesAfter(line, i - 1)}

\* the k-th smallest position of a set
Nth(set, k) == CHOOSE i \in set : Cardinality({h \in set : h < i}) = k - 1

NotQuote(c) == c # "\""

\* current after position b, when it was last reset before position a:
\* every character of line[a..b] but the double quotes ("current += char")
CurrentOf(line, a, b) == SelectSeq(Slice(line, a - 1, b), NotQuote)

\* the tokenizer of parse_bq_file (lines 423-440): parts after the loop
\* "for char in line" and the "if current: parts.append(current)" that
\* follows it
Tokenize(line) ==
    LET ends     == FieldEnds(line)
        n        == Cardinality(ends)
        From(k)  == IF k = 1 THEN 1 ELSE Nth(ends, k - 1) + 1
        parts    == [k \in 1..n |-> CurrentOf(line, From(k), Nth(ends, k) - 1)]
        current  == CurrentOf(line, From(n + 1), Len(line))
    IN  IF current # <<>> THEN Append(parts, current) ELSE parts

\* line.split(',')
Split(line) ==
    LET commas  == {i \in DOMAIN line : line[i] = ","}
        n       == Cardinality(commas)
        From(k) == IF k = 1 THEN 1 ELSE Nth(commas, k - 1) + 1
        To(k)   == IF k = n + 1 THEN Len(line) ELSE Nth(commas, k) - 1
    IN  [k \in 1..(n + 1) |-> Slice(line, From(k) - 1, To(k))]

\* [p.strip('"') for p in line.split(',')] of parse_as_file
SplitStripped(line) ==
    LET parts == Split(line)
    IN  [j \in 1..Len(parts) |-> StripQuotes(parts[j])]

\* parts[j] in Python's numbering from 0, '' beyond the end
Part(parts, j) == IF Len(parts) > j THEN StripQuotes(parts[j + 1]) ELSE <<>>

\* "if len(parts) >= 3" with a larger minimum
AsAcceptFour(parts) == Len(parts) >= AsMinParts + 1

\* "if len(parts) >= 3"
AsAccept(parts) == Len(parts) >= AsMinParts

\* "if len(parts) >= 48"
BqAccept(parts) == Len(parts) >= BqMinParts

\* the dict source of parse_as_file
AsRecord(parts) ==
    [nsn |-> parts[1], supplier_cage_code |-> parts[2],
     supplier_part_number |-> parts[3],
     supplier_name |-> IF Len(parts) > 3 THEN parts[4] ELSE <<>>]

\* the dict quote of parse_bq_file; nsn_clean is None where the code leaves
\* the key out
BqRecord(parts) ==
    [solicitation_number |-> Part(parts, 0),
     solicitation_type |-> Part(parts, 1),
     small_business_setaside |-> Part(parts, 2),
     additional_clause_fillins |-> Part(parts, 3),
     return_by_date |-> Part(parts, 4),
     line_number |-> Part(parts, 43),
     purchase_request |-> Part(parts, 45),
     nsn_part_number |-> Part(parts, 46),
     unit_of_issue |-> Part(parts, 47),
     quantity |-> Part(parts, 48),
     unit_price |-> Part(parts, 49),
     delivery_days |-> Part(parts, 50),
     nsn_clean |-> IF Part(parts, 46) # <<>> THEN RemoveHyphens(Part(parts, 46))
                   ELSE NoneS]

\* "line[a:b].strip() if len(line) > n else ''"
Guarded(line, a, b, n) == IF Len(line) > n THEN Strip(Slice(line, a, b)) ELSE <<>>

\* the dict record of parse_in_file; nsn_clean is None where the code
\* leaves the key out
InRecord(line) ==
    [solicitation_number |-> Strip(Slice(line, 0, 13)),
     nsn_part_number |-> Strip(Slice(line, 13, 59)),
     purchase_request |-> Strip(Slice(line, 59, 72)),
     return_by_date |-> Strip(Slice(line, 72, 80)),
     file_name |-> Strip(Slice(line, 80, 99)),
     quantity |-> Strip(Slice(line, 99, 106)),
     unit_issue |-> Strip(Slice(line, 106, 108)),
     nomenclature |-> Strip(Slice(line, 108, 129)),
     buyer_code |-> Guarded(line, 129, 134, 129),
     amsc |-> Guarded(line, 134, 135, 134),
     item_type |-> Guarded(line, 135, 136, 135),
     small_business_setaside |-> Guarded(line, 136, 137, 136),
     setaside_percentage |-> Guarded(line, 137, 140, 137),
     nsn_clean |-> IF Strip(Slice(line, 13, 59)) # <<>>
                   THEN RemoveHyphens(Strip(Slice(line, 13, 59)))
                   ELSE NoneS]

\* _parse_date of dibbs_local_scraper.py on the date texts of the model:
\* strptime accepts 06122025 under %m%d%Y and 061225 under %m%d%y, and
\* 06/12/25 under none of its four formats
local_parse_date(date_str) ==
    CASE date_str = <<"0", "6", "1", "2", "2", "0", "2", "5">> -> "2025-06-12"
      [] date_str = <<"0", "6", "1", "2", "2", "5">> -> "2025-06-12"
      [] OTHER -> NoneA

\* "int(qty) if qty.isdigit() else None"
IntOrNone(text) == IF AllDigits(text) THEN DigitsValue(text) ELSE NoneInt

\* the dict process_in_file appends for a line; the line ends with its
\* line end
LocalInRecord(line) ==
    [solicitation_number |-> RemoveHyphens(Strip(Slice(line, 0, 13))),
     nsn_part_number |-> RemoveHyphens(Strip(Slice(line, 13, 59))),
     purchase_request |-> Strip(Slice(line, 59, 72)),
     return_by_date |-> local_parse_date(Strip(Slice(line, 72, 80))),
     pdf_filename |-> Strip(Slice(line, 80, 99)),
     quantity |-> IntOrNone(Strip(Slice(line, 99, 106))),
     unit_of_issue |-> Strip(Slice(line, 106, 108)),
     nomenclature |-> Strip(Slice(line, 108, 129)),
     buyer_code |-> Strip(Slice(line, 129, 134)),
     amsc |-> Strip(Slice(line, 134, 135)),
     item_type_indicator |-> Guarded(line, 135, 136, 135),
     small_business_setaside |-> Guarded(line, 136, 137, 136),
     setaside_percentage |-> IntOrNone(Guarded(line, 137, 140, 139)),
     file_date |-> "file_date", source_file |-> "filename"]

\* a line as "for line in f" yields it
WithLineEnd(line) == line \o <<"\n">>

(***************************************************************************)
(* The lines of the files of the model                                     *)
(***************************************************************************)
\* s followed by blanks up to width n
Pad(s, n) == s \o [i \in 1..(n - Len(s)) |-> " "]

\* a line of the index file: 140 characters in 13 columns
InLine(sol, nsn, kind) ==
    IF kind = "full"
    THEN Pad(sol, 13) \o Pad(nsn, 46) \o Pad(<<"R", "3">>, 13)
         \o Pad(<<"0", "6", "1", "2", "2", "5">>, 8) \o Pad(<<"F", "1">>, 19)
         \o Pad(<<"3">>, 7) \o <<"B", "X">> \o Pad(<<"B", "O", "L", "T">>, 21)
         \o Pad(<<"B", "1">>, 5) \o <<"G", "1", "H">> \o Pad(<<"5", "0">>, 3)
    ELSE Pad(sol, 13) \o Pad(nsn, 46) \o Pad(<<>>, 81)

InLineFull == InLine(<<"A", "1">>, <<"1", "-", "2">>, "full")

\* the index lines of the model: complete, with a hyphenated solicitation
\* number, without NSN, cut after 136 and after 130 characters, one
\* character long, blank
InLines ==
    {InLineFull,
     InLine(<<"A", "-", "1">>, <<"1", "2">>, "full"),
     InLine(<<"B", "2">>, <<>>, "sparse"),
     Prefix(InLineFull, 136),
     Prefix(InLineFull, 130),
     <<"X">>,
     <<" ", " ">>}

\* ','.join(fields)
RECURSIVE Join(_)
Join(fields) ==
    IF fields = <<>> THEN <<>>
    ELSE IF Len(fields) = 1 THEN fields[1]
         ELSE fields[1] \o <<",">> \o Join(Tail(fields))

\* a field between double quotes
Quoted(f) == <<"\"">> \o f \o <<"\"">>

\* the n fields of a batch-quote line
BqFields(n, sol) ==
    [i \in 1..n |->
       CASE i = 1  -> sol
         [] i = 2  -> <<"F">>
         [] i = 44 -> <<"1">>
         [] i = 46 -> <<"R", "1">>
         [] i = 47 -> Quoted(<<"1", "-", "2">>)
         [] i = 48 -> <<"E", "A">>
         [] i = 49 -> <<"5">>
         [] OTHER  -> <<"x">>]

\* the batch-quote lines of the model: 51 fields, 48 fields the first of
\* which holds a comma between quotes, 47 fields, 47 fields and an empty
\* 48th, 47 fields and a quoted empty 48th, three fields, blank
BqLines ==
    {Join(BqFields(51, <<"A", "-", "1">>)),
     Join(BqFields(48, Quoted(<<"A", ",", "1">>))),
     Join(BqFields(47, <<"A", "1">>)),
     Join(BqFields(47, <<"A", "1">>)) \o <<",">>,
     Join(BqFields(47, <<"A", "1">>)) \o <<",">> \o Quoted(<<>>),
     Join(<<Quoted(<<"A", ",", "B">>), <<"C">>, <<"D">>>>),
     <<" ">>}

\* the approved-source lines of the model: plain, quoted with a comma in
\* the supplier name, quoted with a comma in the NSN, within blanks, two
\* fields, blank
AsLines ==
    {Join(<<<<"1", "-", "2">>, <<"C", "1">>, <<"V", "1">>>>),
     Join(<<Quoted(<<"1", "2">>), Quoted(<<"C", "2">>), Quoted(<<"V", "2">>),
            Quoted(<<"A", ",", "B">>)>>),
     Join(<<Quoted(<<"1", ",", "2">>), <<"C", "3">>, <<"V", "3">>>>),
     <<" ">> \o Join(<<<<"P", "9">>, <<"C", "4">>, <<"V", "4">>>>) \o <<" ">>,
     Join(<<<<"A">>, <<"B">>>>),
     <<" ">>}

(***************************************************************************)
(* The parsing loops                                                       *)
(***************************************************************************)
ParseInit ==
    /\ f_kind \in {"in", "as", "bq"}
    /\ f_impl \in {"combined", "local"}
    /\ f_impl = "local" => f_kind = "in"
    /\ fpc = "lines"
    /\ ParseLocalsInit
    /\ CrawlIdle
    /\ SessIdle
    /\ PdIdle
    /\ MergeIdle
    /\ HtmlIdle
    /\ DlIdle
    /\ HistIdle

\* one turn of the loop over the lines of the index file: parse_in_file
\* skips a blank line, process_in_file a line shorter than its minimum
ParseInLine ==
    /\ fpc = "lines"
    /\ f_kind = "in"
    /\ Len(f_lines) < MaxLines
    /\ \E text \in InLines :
         LET line == IF f_impl = "local" THEN WithLineEnd(text) ELSE text
             kept == IF f_impl = "local" THEN Len(line) >= LocalMinLength
                     ELSE Len(Strip(line)) # 0
             record == IF f_impl = "local" THEN LocalInRecord(line)
                       ELSE InRecord(line)
         IN  /\ f_lines' = Append(f_lines, text)
             /\ f_parts' = Append(f_parts, <<>>)
             /\ f_records' = IF kept THEN Append(f_records, record) ELSE f_records
             /\ f_out' = Append(f_out, IF kept THEN Len(f_records) + 1 ELSE 0)
    /\ UNCHANGED <<f_kind, f_impl, fpc>>
    /\ UNCHANGED nonParse

\* one turn of the loop of parse_as_file
ParseAsLine ==
    /\ fpc = "lines"
    /\ f_kind = "as"
    /\ Len(f_lines) < MaxLines
    /\ \E text \in AsLines :
         LET line  == Strip(text)
             parts == IF line = <<>> THEN <<>> ELSE SplitStripped(line)
             kept  == line # <<>> /\ AsAccept(parts)
         IN  /\ f_lines' = Append(f_lines, text)
             /\ f_parts' = Append(f_parts, parts)
             /\ f_records' = IF kept THEN Append(f_records, AsRecord(parts))
                             ELSE f_records
             /\ f_out' = Append(f_out, IF kept THEN Len(f_records) + 1 ELSE 0)
    /\ UNCHANGED <<f_kind, f_impl, fpc>>
    /\ UNCHANGED nonParse

\* one turn of the loop of parse_bq_file
ParseBqLine ==
    /\ fpc = "lines"
    /\ f_kind = "bq"
    /\ Len(f_lines) < MaxLines
    /\ \E text \in BqLines :
         LET line  == Strip(text)
             parts == IF line = <<>> THEN <<>> ELSE Tokenize(line)
             kept  == line # <<>> /\ BqAccept(parts)
         IN  /\ f_lines' = Append(f_lines, text)
             /\ f_parts' = Append(f_parts, parts)
             /\ f_records' = IF kept THEN Append(f_records, BqRecord(parts))
                             ELSE f_records
             /\ f_out' = Append(f_out, IF kept THEN Len(f_records) + 1 ELSE 0)
    /\ UNCHANGED <<f_kind, f_impl, fpc>>
    /\ UNCHANGED nonParse

\* the file is exhausted: the list of records is returned
ParseReturn ==
    /\ fpc = "lines"
    /\ fpc' = "returned"
    /\ UNCHANGED <<f_kind, f_impl, f_lines, f_parts, f_out, f_records>>
    /\ UNCHANGED nonParse

ParseNext ==
    \/ ParseInLine
    \/ ParseAsLine
    \/ ParseBqLine
    \/ ParseReturn

SpecParse == ParseInit /\ [][ParseNext]_vars

(***************************************************************************)
(* Claims about the file parsers                                           *)
(***************************************************************************)
\* the commas of a line that stand outside double-quote runs: those with
\* an even number of double quotes before them
UnquotedCommas(line) ==
    {i \in DOMAIN line :
       /\ line[i] = ","
       /\ Cardinality({h \in 1..(i - 1) : line[h] = "\""}) % 2 = 0}

\* the lines read so far that the parser tokenized
Tokenized == {n \in DOMAIN f_lines : Strip(f_lines[n]) # <<>>}

\* number of commas in the fields of a list
RECURSIVE CommasIn(_)
CommasIn(parts) ==
    IF parts = <<>> THEN 0
    ELSE Cardinality({i \in DOMAIN Head(parts) : Head(parts)[i] = ","})
         + CommasIn(Tail(parts))

\* C11: the batch-quote tokenizer splits a line only at the commas outside
\* double-quote runs, emits no quote character and keeps the commas inside
\* quotes as field text, so that the number of fields is the number of
\* unquoted commas plus one; the line "A,B",C,D gives the three fields
\* A,B and C and D.
C11_FieldsAreUnquotedCommasPlusOne ==
    f_kind = "bq" =>
      \A n \in Tokenized :
        LET line == Strip(f_lines[n])
        IN  /\ Len(f_parts[n]) = Cardinality(UnquotedCommas(line)) + 1
            /\ \A j \in DOMAIN f_parts[n] :
                 \A i \in DOMAIN f_parts[n][j] : f_parts[n][j][i] # "\""
            /\ CommasIn(f_parts[n]) =
                 Cardinality({i \in DOMAIN line : line[i] = ","} \ UnquotedCommas(line))
            /\ line = Join(<<Quoted(<<"A", ",", "B">>), <<"C">>, <<"D">>>>)
                 => f_parts[n] = <<<<"A", ",", "B">>, <<"C">>, <<"D">>>>

\* C12: the approved-sources parser tokenizes as the batch-quote parser
\* does: the fields it builds for a line are the fields of the quote-aware
\* tokenizer, so that a comma inside a quoted field neither splits the
\* field nor shifts the later columns.
C12_AsFieldsOfSharedTokenizer ==
    f_kind = "as" =>
      \A n \in Tokenized : f_parts[n] = Tokenize(Strip(f_lines[n]))

\* the minimum column count of the file parsed
MinParts == IF f_kind = "as" THEN 3 ELSE 48

\* the lines before line n that gave a record
EmittedBefore(n) == {h \in 1..(n - 1) : f_out[h] # 0}

RecordNsn(record) ==
    IF f_impl = "combined" /\ record.nsn_clean # NoneS THEN record.nsn_clean
    ELSE record.nsn_part_number

\* C14: for every index line of at least 140 bytes, the solicitation number
\* of the parsed record is the first 13 bytes trimmed, and the NSN of the
\* record holds no hyphen.
C14_IndexRecordFields ==
    f_kind = "in" =>
      \A n \in DOMAIN f_lines :
        (Len(f_lines[n]) >= 140 /\ f_out[n] # 0) =>
          LET record == f_records[f_out[n]]
          IN  /\ record.solicitation_number = Strip(Slice(f_lines[n], 0, 13))
              /\ \A i \in DOMAIN RecordNsn(record) : RecordNsn(record)[i] # "-"

\* the columns of the index file after the first: field and first position
InColumns ==
    {<<"nsn_part_number", 13>>, <<"purchase_request", 59>>,
     <<"return_by_date", 72>>, <<"file_name", 80>>, <<"quantity", 99>>,
     <<"unit_issue", 106>>, <<"nomenclature", 108>>, <<"buyer_code", 129>>,
     <<"amsc", 134>>, <<"item_type", 135>>, <<"small_business_setaside", 136>>,
     <<"setaside_percentage", 137>>}

\* every field of the record that lies beyond the end of the line is empty
BeyondEmpty(record, text) ==
    IF f_impl = "combined"
    THEN \A col \in InColumns : col[2] >= Len(text) => record[col[1]] = <<>>
    ELSE /\ Len(text) <= 137 => record.setaside_percentage = NoneInt
         /\ Len(text) <= 136 => record.small_business_setaside = <<>>

\* C15: a non-empty index line shorter than the minimum usable length (137
\* bytes with its line end) gives no record and no error, and the lines
\* after it are still parsed; for a line that is long enough, every field
\* beyond the end of the line is the empty string.
C15_ShortIndexLineSkipped ==
    f_kind = "in" =>
      \A n \in DOMAIN f_lines :
        /\ (Strip(f_lines[n]) # <<>> /\ Len(f_lines[n]) + 1 < 137) => f_out[n] = 0
        /\ f_out[n] # 0 => BeyondEmpty(f_records[f_out[n]], f_lines[n])

(***************************************************************************)
(* The table parser: RfqRecsParser of solicitations.py.  The page is fed   *)
(* one event at a time: a start tag, an end tag or a text.  The pages are  *)
(* well formed: every element is closed inside the element that holds it,  *)
(* a <td> stands in a <tr>, an <a> in a <td>, and anchors are not nested.  *)
(***************************************************************************)
\* the rows of a page
MaxTableRows == 1

\* the anchors of a page
MaxAnchors == 3

\* the texts of a page
MaxTexts == 1

\* the cells of a row of the result table: "elif self.td_count == 9"
LastColumn == 9

\* "attrs_dict.get('class') in ['BgWhite', 'BgSilver']"
DataClasses == {"BgWhite", "BgSilver"}

\* the class attributes of the <tr> tags of the pages
RowClasses == {"BgWhite", "Header"}

\* the attributes of the anchors of the pages: an attribute is <<>> when
\* the tag does not have it, else the list of its value
AnchorAttrs ==
    {[title |-> <<"T">>, href |-> <<"u1">>],
     [title |-> <<"T">>, href |-> <<>>],
     [title |-> <<>>, href |-> <<"u2">>]}

\* the texts inside the record-count element
MaxCountTexts == 2

\* the texts of the record-count element of the pages
CountTexts == {<<"R", ":", " ", "1", "2">>, <<"7">>, <<"x">>}

\* the elements inside the record-count element of the pages
NestedTags == {"strong", "span"}

\* the texts of the pages; ">>" stands for the character U+00BB
DataTexts == {<<"S", "-", "1">>, <<">>", " ", "P">>, <<" ">>}

\* attrs_dict.get(name, '')
AttrGet(attrs, name) == IF attrs[name] = <<>> THEN "" ELSE attrs[name][1]

\* ' '.join(words)
RECURSIVE JoinWords(_)
JoinWords(words) ==
    IF words = <<>> THEN <<>>
    ELSE IF Len(words) = 1 THEN words[1]
         ELSE words[1] \o <<" ">> \o JoinWords(Tail(words))

\* ''.join(words)
RECURSIVE Concat(_)
Concat(words) == IF words = <<>> THEN <<>> ELSE Head(words) \o Concat(Tail(words))

\* text.split(ch)[0]
RECURSIVE BeforeChar(_, _)
BeforeChar(text, ch) ==
    IF text = <<>> \/ Head(text) = ch THEN <<>>
    ELSE <<Head(text)>> \o BeforeChar(Tail(text), ch)

\* "any(self.row.values())"
AnyValue(r) ==
    \/ \E f \in DOMAIN r \ {"solicitation_url"} : r[f] # <<>>
    \/ r.solicitation_url # ""

\* text.split('\n')
RECURSIVE SplitLines(_)
SplitLines(text) ==
    IF \E i \in DOMAIN text : text[i] = "\n"
    THEN LET first == BeforeChar(text, "\n")
         IN  <<first>> \o SplitLines(SubSeq(text, Len(first) + 2, Len(text)))
    ELSE <<text>>

\* a line that is not blank
NotBlank(line) == Strip(line) # <<>>

\* "[line.strip() for line in cell_text.split('\n') if line.strip()]"
StrippedLines(text) ==
    LET kept == SelectSeq(SplitLines(text), NotBlank)
    IN  [i \in DOMAIN kept |-> Strip(kept[i])]

\* "'QTY:' in line.upper()"
HasQty(line) == \E j \in DOMAIN line : QtyAt(line, j)

\* the first position from j on at which QTY: stands, Len(line) + 1 for none
RECURSIVE QtyFrom(_, _)
QtyFrom(line, j) ==
    IF j > Len(line) \/ QtyAt(line, j) THEN Min(j, Len(line) + 1)
    ELSE QtyFrom(line, j + 1)

\* line.upper().split('QTY:')[0]
QtyPart0(line) == SubSeq(Upper(line), 1, QtyFrom(line, 1) - 1)

\* line.upper().split('QTY:')[1]
QtyPart1(line) ==
    LET from == QtyFrom(line, 1) + 4
    IN  SubSeq(Upper(line), from, QtyFrom(line, from) - 1)

\* "any(char.isdigit() for char in line)"
AnyDigit(line) == \E i \in DOMAIN line : IsDigit(line[i])

\* the quantity the lines after the first give: the first line with QTY:
\* or with a digit decides
RECURSIVE QuantityOfLines(_, _)
QuantityOfLines(lines, quantity) ==
    IF lines = <<>> THEN quantity
    ELSE IF HasQty(Head(lines)) THEN Strip(QtyPart1(Head(lines)))
         ELSE IF AnyDigit(Head(lines)) THEN Head(lines)
              ELSE QuantityOfLines(Tail(lines), quantity)

\* the PR number and the quantity of the row after the purchase-request
\* cell: handle_endtag('td') for td_count == 7
PrSplit(cell_text, r) ==
    LET lines == StrippedLines(cell_text)
    IN  IF lines = <<>> THEN [pr_number |-> r.pr_number, quantity |-> r.quantity]
        ELSE IF HasQty(lines[1])
             THEN [pr_number |-> Strip(QtyPart0(lines[1])),
                   quantity |-> Strip(QtyPart1(lines[1]))]
             ELSE [pr_number |-> lines[1],
                   quantity |-> QuantityOfLines(Tail(lines), r.quantity)]

\* the row after handle_endtag('td') mapped the text of the cell to the
\* field of its column
RowWithCell(r, col, cell_text) ==
    CASE col = 1 -> [r EXCEPT !.item_number = cell_text]
      [] col = 2 -> [r EXCEPT !.nsn_part_number = RemoveHyphens(cell_text)]
      [] col = 3 -> [r EXCEPT !.nomenclature = cell_text]
      [] col = 4 -> r
      [] col = 5 ->
           IF cell_text # <<>>
           THEN [r EXCEPT !.solicitation =
                   RemoveHyphens(Strip(BeforeChar(cell_text, ">>")))]
           ELSE r
      [] col = 6 -> [r EXCEPT !.rfq_quote_status = cell_text]
      [] col = 7 ->
           [r EXCEPT !.purchase_request = cell_text,
                     !.pr_number = PrSplit(cell_text, r).pr_number,
                     !.quantity = PrSplit(cell_text, r).quantity]
      \* the last two cells of the model's pages are empty
      [] col = 8 /\ cell_text = <<>> -> [r EXCEPT !.issued = cell_text]
      [] col = LastColumn /\ cell_text = <<>> -> [r EXCEPT !.return_by = cell_text]
      [] OTHER -> r

\* handle_starttag('tr', attrs)
HtmlStartTr ==
    /\ hpc = "feed"
    /\ h_at = "top"
    /\ h_trs < MaxTableRows
    /\ \E class \in RowClasses :
         IF class \in DataClasses
         THEN /\ inside_tr' = TRUE
              /\ td_count' = 0
              /\ self_row' = NewRow
         ELSE UNCHANGED <<inside_tr, td_count, self_row>>
    /\ h_at' = "tr"
    /\ h_trs' = h_trs + 1
    /\ h_col' = 0
    /\ h_cells' = [c \in AnchorColumns |-> <<>>]
    /\ UNCHANGED <<hpc, inside_td, inside_a, current_link_href,
                   current_link_text, td_content, collecting_tech_docs,
                   current_tech_doc, self_rows, h_anchors, h_texts>>
    /\ UNCHANGED countVars
    /\ UNCHANGED nonHtml

\* the cells of the row the page is in: a row that is no data row, such as
\* the pager row of the grid, holds one cell
RowCells == IF inside_tr THEN LastColumn ELSE 1

\* handle_starttag('td', attrs)
HtmlStartTd ==
    /\ hpc = "feed"
    /\ h_at = "tr"
    /\ h_col < RowCells
    /\ IF inside_tr
       THEN /\ inside_td' = TRUE
            /\ td_count' = td_count + 1
            /\ td_content' = <<>>
       ELSE UNCHANGED <<inside_td, td_count, td_content>>
    /\ h_at' = "td"
    /\ h_col' = h_col + 1
    /\ UNCHANGED <<hpc, inside_tr, inside_a, current_link_href,
                   current_link_text, collecting_tech_docs, current_tech_doc,
                   self_row, self_rows, h_trs, h_anchors, h_texts, h_cells>>
    /\ UNCHANGED countVars
    /\ UNCHANGED nonHtml

\* every anchor of the solicitation column sets the link of the row
SolicitationLinkOfLast(r, href) == [r EXCEPT !.solicitation_url = href]

\* the first anchor of the solicitation column sets the link of the row:
\* "if not self.row['solicitation_url']"
SolicitationLink(r, href) ==
    IF r.solicitation_url = "" THEN [r EXCEPT !.solicitation_url = href] ELSE r

\* handle_starttag('a', attrs)
HtmlStartA ==
    /\ hpc = "feed"
    /\ h_at = "td"
    /\ h_col \in AnchorColumns
    /\ h_anchors < MaxAnchors
    /\ \E attrs \in AnchorAttrs :
         /\ IF inside_td
            THEN /\ inside_a' = TRUE
                 /\ current_link_href' = AttrGet(attrs, "href")
                 /\ current_link_text' = <<>>
                 /\ IF td_count = 4 /\ attrs.title # <<>>
                    THEN /\ current_tech_doc' =
                              <<[title |-> AttrGet(attrs, "title"),
                                 url |-> AttrGet(attrs, "href")]>>
                         /\ collecting_tech_docs' = TRUE
                         /\ UNCHANGED self_row
                    ELSE /\ self_row' =
                              IF td_count = 5
                              THEN SolicitationLink(self_row, AttrGet(attrs, "href"))
                              ELSE self_row
                         /\ UNCHANGED <<current_tech_doc, collecting_tech_docs>>
            ELSE UNCHANGED <<inside_a, current_link_href, current_link_text,
                             current_tech_doc, collecting_tech_docs, self_row>>
         /\ h_cells' = [h_cells EXCEPT ![h_col] =
                          Append(@, [attrs |-> attrs, closed |-> FALSE])]
    /\ h_at' = "a"
    /\ h_anchors' = h_anchors + 1
    /\ UNCHANGED <<hpc, inside_tr, inside_td, td_count, td_content, self_rows,
                   h_trs, h_col, h_texts>>
    /\ UNCHANGED countVars
    /\ UNCHANGED nonHtml

\* the documents of the row after the anchor closed:
\* "if self.current_tech_doc.get('url')"
WithTechDoc(docs, doc) == IF doc.url # "" THEN Append(docs, doc) ELSE docs

\* handle_endtag('a')
HtmlEndA ==
    /\ hpc = "feed"
    /\ h_at = "a"
    /\ IF inside_a
       THEN /\ inside_a' = FALSE
            /\ IF collecting_tech_docs /\ current_tech_doc # <<>>
               THEN /\ self_row' =
                         [self_row EXCEPT !.technical_documents =
                            WithTechDoc(@, current_tech_doc[1])]
                    /\ collecting_tech_docs' = FALSE
                    /\ current_tech_doc' = <<>>
               ELSE UNCHANGED <<self_row, collecting_tech_docs, current_tech_doc>>
            /\ td_content' =
                 IF current_link_text # <<>> /\ Strip(Concat(current_link_text)) # <<>>
                 THEN Append(td_content, Strip(Concat(current_link_text)))
                 ELSE td_content
       ELSE UNCHANGED <<inside_a, self_row, collecting_tech_docs,
                        current_tech_doc, td_content>>
    /\ h_at' = "td"
    /\ h_cells' = [h_cells EXCEPT ![h_col] =
                     [@ EXCEPT ![Len(@)].closed = TRUE]]
    /\ UNCHANGED <<hpc, inside_tr, inside_td, td_count, current_link_href,
                   current_link_text, self_rows, h_trs, h_col, h_anchors,
                   h_texts>>
    /\ UNCHANGED countVars
    /\ UNCHANGED nonHtml

\* re.search(r'\d+', data): the first run of digits of the text, as a number
FirstNumber(data) ==
    IF \E i \in DOMAIN data : IsDigit(data[i])
    THEN LET first == CHOOSE i \in DOMAIN data :
                         /\ IsDigit(data[i])
                         /\ \A h \in 1..(i - 1) : ~IsDigit(data[h])
         IN  DigitsValue(SubSeq(data, first, SkipDigits(data, first) - 1))
    ELSE NoneInt

\* the first run of digits of the text is taken at every position but the
\* first
FirstNumberAfterFirst(data) == FirstNumber(Tail(data))

\* the record count after a text inside the record-count element
RecordsAfter(data) ==
    IF FirstNumber(data) # NoneInt THEN FirstNumber(data) ELSE self_records

\* handle_data(data): what the parser keeps of the text
handle_data(data) ==
    IF Strip(data) = <<>>
    THEN UNCHANGED <<self_records, current_link_text, td_content>>
    ELSE IF inside_count
         THEN /\ self_records' = RecordsAfter(Strip(data))
              /\ UNCHANGED <<current_link_text, td_content>>
         ELSE IF inside_a
              THEN /\ current_link_text' = Append(current_link_text, Strip(data))
                   /\ UNCHANGED <<self_records, td_content>>
              ELSE IF inside_td
                   THEN /\ td_content' = Append(td_content, Strip(data))
                        /\ UNCHANGED <<self_records, current_link_text>>
                   ELSE UNCHANGED <<self_records, current_link_text, td_content>>

\* handle_data(data), for a text of a cell or of an anchor
HtmlData ==
    /\ hpc = "feed"
    /\ h_at \in {"td", "a"}
    /\ h_col \in AnchorColumns
    /\ h_texts < MaxTexts
    /\ \E data \in DataTexts : handle_data(data)
    /\ h_texts' = h_texts + 1
    /\ UNCHANGED <<hpc, inside_tr, inside_td, td_count, inside_a,
                   current_link_href, collecting_tech_docs, current_tech_doc,
                   self_row, self_rows, h_at, h_trs, h_col, h_anchors, h_cells,
                   inside_count, h_counted, h_shown>>
    /\ UNCHANGED nonHtml

\* the column of the purchase request: "elif self.td_count == 7"
PrColumn == 7

\* the texts of the purchase-request cells of the pages
PrTexts ==
    {<<"P", "1", " ", "Q", "T", "Y", ":", " ", "5">>,
     <<"p", "1", " ", "q", "t", "y", ":", "1", ",", "0", "0", "0">>,
     <<"P", "1", "\n", "5", " ", "E", "A">>,
     <<"P", "1", "\n", "Q", "T", "Y", ":", " ", "5">>,
     <<"P", "1">>}

\* handle_data(data), for a text of the purchase-request cell
HtmlPrData ==
    /\ hpc = "feed"
    /\ h_at = "td"
    /\ h_col = PrColumn
    /\ h_texts < MaxTexts
    /\ \E data \in PrTexts : handle_data(data)
    /\ h_texts' = h_texts + 1
    /\ UNCHANGED <<hpc, inside_tr, inside_td, td_count, inside_a,
                   current_link_href, collecting_tech_docs, current_tech_doc,
                   self_row, self_rows, h_at, h_trs, h_col, h_anchors, h_cells,
                   inside_count, h_counted, h_shown>>
    /\ UNCHANGED nonHtml

\* the parser attributes that the tags of the record-count element leave
\* alone
rowAttrs == <<inside_tr, inside_td, td_count, inside_a, current_link_href,
              current_link_text, td_content, collecting_tech_docs,
              current_tech_doc, self_row, self_rows>>

\* the page outside the record-count element
pageRows == <<h_trs, h_col, h_anchors, h_texts, h_cells>>

\* handle_starttag('span', attrs) with the id ctl00_cph1_lblRecCount; the
\* element stands above the result table
HtmlStartCount ==
    /\ hpc = "feed"
    /\ h_at = "top"
    /\ h_trs = 0
    /\ ~h_counted
    /\ inside_count' = TRUE
    /\ h_at' = "count"
    /\ h_counted' = TRUE
    /\ UNCHANGED <<hpc, self_records, h_shown, rowAttrs, pageRows>>
    /\ UNCHANGED nonHtml

\* handle_starttag(tag, attrs) for an element inside the record-count
\* element: a <strong>, or a <span> without id
HtmlStartNested ==
    /\ hpc = "feed"
    /\ h_at = "count"
    /\ \E tag \in NestedTags : h_at' = tag
    /\ UNCHANGED <<hpc, countVars, rowAttrs, pageRows>>
    /\ UNCHANGED nonHtml

\* handle_endtag(tag) for the element inside the record-count element:
\* "elif tag == 'span' and self.inside_count"
HtmlEndNested ==
    /\ hpc = "feed"
    /\ h_at \in NestedTags
    /\ inside_count' = IF h_at = "span" THEN FALSE ELSE inside_count
    /\ h_at' = "count"
    /\ UNCHANGED <<hpc, self_records, h_counted, h_shown, rowAttrs, pageRows>>
    /\ UNCHANGED nonHtml

\* handle_data(data), for a text inside the record-count element
HtmlCountData ==
    /\ hpc = "feed"
    /\ h_at \in {"count"} \cup NestedTags
    /\ Len(h_shown) < MaxCountTexts
    /\ \E data \in CountTexts :
         /\ handle_data(data)
         /\ h_shown' = Append(h_shown, data)
    /\ UNCHANGED <<hpc, inside_tr, inside_td, td_count, inside_a,
                   current_link_href, collecting_tech_docs, current_tech_doc,
                   self_row, self_rows, h_at, inside_count, h_counted, pageRows>>
    /\ UNCHANGED nonHtml

\* handle_endtag('span') at the end of the record-count element
HtmlEndCount ==
    /\ hpc = "feed"
    /\ h_at = "count"
    /\ inside_count' = FALSE
    /\ h_at' = "top"
    /\ h_shown' = <<>>
    /\ UNCHANGED <<hpc, self_records, h_counted, rowAttrs, pageRows>>
    /\ UNCHANGED nonHtml

\* handle_endtag('td')
HtmlEndTd ==
    /\ hpc = "feed"
    /\ h_at = "td"
    /\ IF inside_td
       THEN /\ inside_td' = FALSE
            /\ self_row' = RowWithCell(self_row, td_count, Strip(JoinWords(td_content)))
       ELSE UNCHANGED <<inside_td, self_row>>
    /\ h_at' = "tr"
    /\ UNCHANGED <<hpc, inside_tr, td_count, inside_a, current_link_href,
                   current_link_text, td_content, collecting_tech_docs,
                   current_tech_doc, self_rows, h_trs, h_col, h_anchors,
                   h_texts, h_cells>>
    /\ UNCHANGED countVars
    /\ UNCHANGED nonHtml

\* handle_endtag('tr'), after the last cell of the row
HtmlEndTr ==
    /\ hpc = "feed"
    /\ h_at = "tr"
    /\ h_col = RowCells
    /\ IF inside_tr
       THEN /\ inside_tr' = FALSE
            /\ self_rows' = IF AnyValue(self_row) THEN Append(self_rows, self_row)
                            ELSE self_rows
       ELSE UNCHANGED <<inside_tr, self_rows>>
    /\ h_at' = "top"
    /\ UNCHANGED <<hpc, inside_td, td_count, inside_a, current_link_href,
                   current_link_text, td_content, collecting_tech_docs,
                   current_tech_doc, self_row, h_trs, h_col, h_anchors,
                   h_texts, h_cells>>
    /\ UNCHANGED countVars
    /\ UNCHANGED nonHtml

\* parser.close() and "return parser.records, parser.get_data()" of
\* RfqRecsParser.parse
HtmlReturn ==
    /\ hpc = "feed"
    /\ h_at = "top"
    /\ hpc' = "returned"
    /\ UNCHANGED <<inside_tr, inside_td, td_count, inside_a, current_link_href,
                   current_link_text, td_content, collecting_tech_docs,
                   current_tech_doc, self_row, self_rows, h_at, h_trs, h_col,
                   h_anchors, h_texts, h_cells>>
    /\ UNCHANGED countVars
    /\ UNCHANGED nonHtml

\* RfqRecsParser.parse(page) after "parser = RfqRecsParser()"
HtmlInit ==
    /\ hpc = "feed"
    /\ HtmlLocalsInit
    /\ CrawlIdle
    /\ SessIdle
    /\ PdIdle
    /\ MergeIdle
    /\ ParseIdle
    /\ DlIdle
    /\ HistIdle

HtmlNext ==
    \/ HtmlStartTr
    \/ HtmlStartTd
    \/ HtmlStartA
    \/ HtmlEndA
    \/ HtmlData
    \/ HtmlEndTd
    \/ HtmlEndTr
    \/ HtmlReturn

\* the pages of rows with anchors, without record-count element
SpecHtml == HtmlInit /\ [][HtmlNext]_vars

PageNext ==
    \/ HtmlStartCount
    \/ HtmlStartNested
    \/ HtmlEndNested
    \/ HtmlCountData
    \/ HtmlEndCount
    \/ HtmlStartTr
    \/ HtmlStartTd
    \/ HtmlData
    \/ HtmlPrData
    \/ HtmlEndTd
    \/ HtmlEndTr
    \/ HtmlReturn

\* the pages of a record-count element and of rows without anchors, with a
\* text in the purchase-request cell
SpecPage == HtmlInit /\ [][PageNext]_vars

(***************************************************************************)
(* Claims about the table parser                                           *)
(***************************************************************************)
\* the href of an anchor of the page, the empty string when it has none
HrefOf(anchor) == IF anchor.attrs.href = <<>> THEN "" ELSE anchor.attrs.href[1]

\* the document of a title anchor of the page: its title and its URL
DocOf(anchor) == [title |-> anchor.attrs.title[1], url |-> HrefOf(anchor)]

\* an anchor that closed and has a title attribute
ClosedWithTitle(anchor) == anchor.closed /\ anchor.attrs.title # <<>>

\* an anchor that closed and has a title attribute and a non-empty href
ClosedWithTitleAndHref(anchor) == ClosedWithTitle(anchor) /\ HrefOf(anchor) # ""

\* an anchor with a non-empty href
WithHref(anchor) == HrefOf(anchor) # ""

\* the documents of a list of anchors
DocsOf(anchors) == [i \in DOMAIN anchors |-> DocOf(anchors[i])]

\* the href of the first anchor of a list, the empty string for no anchor
FirstHref(anchors) == IF anchors = <<>> THEN "" ELSE HrefOf(anchors[1])

\* C30: within a data row, the technical documents of the row are the
\* documents (title and URL) of the anchors of the fourth column that have
\* a title attribute and have closed, one for each in their order; the
\* solicitation link of the row is the URL of the first anchor of the fifth
\* column; the anchors of the other columns add neither.
C30_AnchorsOfRow ==
    inside_tr =>
      /\ self_row.technical_documents = DocsOf(SelectSeq(h_cells[4], ClosedWithTitle))
      /\ self_row.solicitation_url = FirstHref(h_cells[5])

\* C30, amended: within a data row of a well-formed page, the technical
\* documents of the row are the documents of the anchors of the fourth
\* column that have a title attribute and a non-empty href and have closed,
\* one for each in their order; the solicitation link of the row is the
\* href of the first anchor of the fifth column that has a non-empty href;
\* the anchors of the other columns add neither.
C30_AnchorsWithHrefOfRow ==
    inside_tr =>
      /\ self_row.technical_documents =
           DocsOf(SelectSeq(h_cells[4], ClosedWithTitleAndHref))
      /\ self_row.solicitation_url = FirstHref(SelectSeq(h_cells[5], WithHref))

\* a data row with a document in the fourth column and, in the fifth, an
\* anchor without href before one with an href
C30_Witness ==
    /\ inside_tr
    /\ Len(self_row.technical_documents) = 1
    /\ Len(h_cells[5]) = 2
    /\ ~WithHref(h_cells[5][1])
    /\ self_row.solicitation_url = "u2"

\* the page is inside the record-count element
InCountElement == h_at \in {"count", "strong", "span"}

\* the number a text of the record-count element renders, NoneInt for a
\* text that renders none
ShownValue(text) ==
    CASE text = <<"R", ":", " ", "1", "2">> -> 12
      [] text = <<"7">> -> 7
      [] OTHER -> NoneInt

\* the number rendered by the last numeric text of a list, 0 for none
RECURSIVE LastShown(_)
LastShown(texts) ==
    IF texts = <<>> THEN 0
    ELSE IF ShownValue(texts[Len(texts)]) # NoneInt THEN ShownValue(texts[Len(texts)])
         ELSE LastShown(SubSeq(texts, 1, Len(texts) - 1))

\* C31: the declared record count of the parser is the value of the last
\* numeric text fed inside the record-count element (a later text
\* overwrites an earlier one), and no text or tag outside that element
\* changes it.
C31_DeclaredCount ==
    /\ [](InCountElement => self_records = LastShown(h_shown))
    /\ [][~InCountElement => self_records' = self_records]_vars

\* the number a quantity text of the parser denotes: NoneInt for the empty
\* text, and a text that denotes no number is not a quantity value
NotANumber == 0 - 2

QuantityValue(text) ==
    IF text = <<>> THEN NoneInt
    ELSE IF AllDigits(RemoveCommas(text)) THEN DigitsValue(RemoveCommas(text))
         ELSE NotANumber

\* the split of the parser agrees with the extraction of the merge on the
\* purchase-request text of a row
SplitAgrees(r) ==
    LET ex == extract_quantity_from_purchase_request(r.purchase_request)
    IN  /\ r.pr_number = ex.pr
        /\ QuantityValue(r.quantity) = ex.qty

\* C32: for every row the parser returns, the PR number and the quantity
\* the parser split from the text of the purchase-request cell are the PR
\* number and the quantity value extract_quantity_from_purchase_request
\* gives for the same text.
C32_SplitAgrees == \A i \in DOMAIN self_rows : SplitAgrees(self_rows[i])

(***************************************************************************)
(* The downloader: DIBBSDownloader.download_file of dibbs_rfq_downloader,  *)
(* called by download_files_for_date for one file.  One action is one      *)
(* attempt of the loop, by what the server answers.                        *)
(***************************************************************************)
\* the runs of download_files_for_date for the file
MaxRuns == 2

\* "max_retries: int = 3" of download_file
DlMaxRetries == 3

\* the hosts of the urls
DlHosts == {"dibbs", "dibbs2"}

\* the endings of the output paths
DlEndings == {"zip", "txt", "html"}

\* what a response that is saved holds: a ZIP archive, bytes that are none,
\* a page with <html in its first 100 bytes, a page that starts with
\* <!doctype and has its <html after them, or text
DlContents == {"zip", "garbage", "html", "doctype", "text"}

\* what dibbs_session raises when it fails
SessionErrors == {"RequestException", "other"}

\* self.session_dibbs2 or self.session_dibbs, by "'dibbs2' in url"
SessionOf(host) == IF host = "dibbs2" THEN session_dibbs2 ELSE session_dibbs

\* the arguments of time.sleep after a failed attempt:
\* "if attempt < max_retries - 1: time.sleep(2 ** attempt)"
SleptAfter(tried) ==
    IF tried < DlMaxRetries - 1 THEN Append(d_sleeps, 2 ^ tried) ELSE d_sleeps

\* "with zipfile.ZipFile(output_path, 'r')" raises no BadZipFile
IsZip(content) == content = "zip"

\* "b'<html' in content.lower() or b'<!doctype' in content.lower()" of the
\* first 100 bytes
LooksHtml(content) == content \in {"html", "doctype"}

\* download_file keeps the file it saved
Verified(ending, content) ==
    CASE ending = "zip" -> IsZip(content)
      [] ending = "txt" -> ~LooksHtml(content)
      [] OTHER -> TRUE

\* download_files_for_date: the file that exists at the path is valid
ExistingValid(ending, content) ==
    CASE ending = "zip" -> IsZip(content)
      [] ending = "txt" -> content # "html"
      [] OTHER -> TRUE

\* DIBBSDownloader() and the first run of download_files_for_date, at its
\* call of download_file for a path that holds no file
DlInit ==
    /\ dpc = "call"
    /\ d_host \in DlHosts
    /\ d_ext \in DlEndings
    /\ d_attempt = 0
    /\ session_dibbs = 1
    /\ session_dibbs2 \in {0, 2}
    /\ d_session = 0
    /\ d_created = IF session_dibbs2 = 0 THEN 1 ELSE 2
    /\ d_file = "none"
    /\ d_ret = "none"
    /\ d_gets = <<>>
    /\ d_sleeps = <<>>
    /\ d_runs = 1
    /\ CrawlIdle
    /\ SessIdle
    /\ PdIdle
    /\ MergeIdle
    /\ ParseIdle
    /\ HtmlIdle
    /\ HistIdle

\* "session = self.get_dibbs2_session()" or "session = self.session_dibbs"
DlSelectSession ==
    /\ dpc = "call"
    /\ IF d_host = "dibbs2" /\ session_dibbs2 = 0
       THEN /\ session_dibbs2' = d_created + 1
            /\ d_created' = d_created + 1
            /\ d_session' = d_created + 1
       ELSE /\ d_session' = SessionOf(d_host)
            /\ UNCHANGED <<session_dibbs2, d_created>>
    /\ dpc' = "loop"
    /\ d_attempt' = 0
    /\ UNCHANGED <<d_host, d_ext, session_dibbs, d_file, d_ret, d_gets,
                   d_sleeps, d_runs>>
    /\ UNCHANGED nonDl

\* get_dibbs2_session: dibbs_session raises
DlSelectSessionFails ==
    /\ dpc = "call"
    /\ d_host = "dibbs2"
    /\ session_dibbs2 = 0
    /\ dpc' = "raised"
    /\ UNCHANGED <<d_host, d_ext, d_attempt, session_dibbs, session_dibbs2,
                   d_session, d_created, d_file, d_ret, d_gets, d_sleeps, d_runs>>
    /\ UNCHANGED nonDl

\* an attempt whose session.get or raise_for_status raises a
\* RequestException
DlRequestError ==
    /\ dpc = "loop"
    /\ d_attempt < DlMaxRetries
    /\ d_gets' = Append(d_gets, [session |-> d_session, fresh |-> 0])
    /\ d_sleeps' = SleptAfter(d_attempt)
    /\ d_attempt' = d_attempt + 1
    /\ UNCHANGED <<dpc, d_host, d_ext, session_dibbs, session_dibbs2,
                   d_session, d_created, d_file, d_ret, d_runs>>
    /\ UNCHANGED nonDl

\* the sessions after the warning page: the session of the host is made
\* again
Reestablished(host) ==
    /\ session_dibbs' = IF host = "dibbs2" THEN session_dibbs ELSE d_created + 1
    /\ session_dibbs2' = IF host = "dibbs2" THEN d_created + 1 ELSE session_dibbs2
    /\ d_created' = d_created + 1
    /\ UNCHANGED d_session

\* an attempt whose response is the DoD warning page: the session is made
\* again and the loop continues
DlWarningPage ==
    /\ dpc = "loop"
    /\ d_attempt < DlMaxRetries
    /\ d_ext # "html"
    /\ Reestablished(d_host)
    /\ d_gets' = Append(d_gets, [session |-> d_session, fresh |-> d_created + 1])
    /\ d_attempt' = d_attempt + 1
    /\ UNCHANGED <<dpc, d_host, d_ext, d_file, d_ret, d_sleeps, d_runs>>
    /\ UNCHANGED nonDl

\* an attempt whose response is the DoD warning page, and dibbs_session
\* raises: a RequestException is caught by the attempt
DlWarningPageSessionFails ==
    /\ dpc = "loop"
    /\ d_attempt < DlMaxRetries
    /\ d_ext # "html"
    /\ \E raised \in SessionErrors :
         IF raised = "RequestException"
         THEN /\ d_sleeps' = SleptAfter(d_attempt)
              /\ d_attempt' = d_attempt + 1
              /\ UNCHANGED dpc
         ELSE /\ dpc' = "raised"
              /\ UNCHANGED <<d_sleeps, d_attempt>>
    /\ d_gets' = Append(d_gets, [session |-> d_session, fresh |-> 0])
    /\ UNCHANGED <<d_host, d_ext, session_dibbs, session_dibbs2, d_session,
                   d_created, d_file, d_ret, d_runs>>
    /\ UNCHANGED nonDl

\* an attempt whose response breaks while it is written: open(output_path,
\* 'wb') made the file and iter_content raises a RequestException
DlStreamBreaks ==
    /\ dpc = "loop"
    /\ d_attempt < DlMaxRetries
    /\ d_file' = "partial"
    /\ d_gets' = Append(d_gets, [session |-> d_session, fresh |-> 0])
    /\ d_sleeps' = SleptAfter(d_attempt)
    /\ d_attempt' = d_attempt + 1
    /\ UNCHANGED <<dpc, d_host, d_ext, session_dibbs, session_dibbs2,
                   d_session, d_created, d_ret, d_runs>>
    /\ UNCHANGED nonDl

\* an attempt whose response is saved and verified
DlSaved ==
    /\ dpc = "loop"
    /\ d_attempt < DlMaxRetries
    /\ \E content \in DlContents :
         IF Verified(d_ext, content)
         THEN /\ d_file' = content
              /\ d_ret' = "True"
              /\ dpc' = "returned"
              /\ UNCHANGED <<d_sleeps, d_attempt>>
         ELSE /\ d_file' = "none"
              /\ IF d_attempt < DlMaxRetries - 1
                 THEN /\ d_sleeps' = SleptAfter(d_attempt)
                      /\ d_attempt' = d_attempt + 1
                      /\ UNCHANGED <<d_ret, dpc>>
                 ELSE /\ d_ret' = "False"
                      /\ dpc' = "returned"
                      /\ UNCHANGED <<d_sleeps, d_attempt>>
    /\ d_gets' = Append(d_gets, [session |-> d_session, fresh |-> 0])
    /\ UNCHANGED <<d_host, d_ext, session_dibbs, session_dibbs2, d_session,
                   d_created, d_runs>>
    /\ UNCHANGED nonDl

\* "return False" after the last attempt
DlExhausted ==
    /\ dpc = "loop"
    /\ d_attempt = DlMaxRetries
    /\ d_ret' = "False"
    /\ dpc' = "returned"
    /\ UNCHANGED <<d_host, d_ext, d_attempt, session_dibbs, session_dibbs2,
                   d_session, d_created, d_file, d_gets, d_sleeps, d_runs>>
    /\ UNCHANGED nonDl

\* a later run of download_files_for_date for the file: a valid file that
\* exists is skipped, any other is removed and download_file is called
DlFilesForDate ==
    /\ dpc = "returned"
    /\ d_runs < MaxRuns
    /\ IF d_file # "none" /\ ExistingValid(d_ext, d_file)
       THEN /\ dpc' = "skipped"
            /\ UNCHANGED <<d_file, d_ret, d_gets, d_attempt>>
       ELSE /\ dpc' = "call"
            /\ d_file' = "none"
            /\ d_ret' = "none"
            /\ d_gets' = <<>>
            /\ d_attempt' = 0
    /\ d_runs' = d_runs + 1
    /\ UNCHANGED <<d_host, d_ext, session_dibbs, session_dibbs2, d_session,
                   d_created, d_sleeps>>
    /\ UNCHANGED nonDl

DlNext ==
    \/ DlSelectSession
    \/ DlSelectSessionFails
    \/ DlRequestError
    \/ DlWarningPage
    \/ DlWarningPageSessionFails
    \/ DlStreamBreaks
    \/ DlSaved
    \/ DlExhausted
    \/ DlFilesForDate

SpecDownload == DlInit /\ [][DlNext]_vars

(***************************************************************************)
(* Claims about the downloader                                             *)
(***************************************************************************)
\* C33: in a call of download_file, the request that follows a response
\* recognised as the warning page, after which the session was made again,
\* is sent with the session that was made, not with the session that
\* received the warning page.
C33_RetryWithNewSession ==
    \A i \in DOMAIN d_gets :
      (i > 1 /\ d_gets[i - 1].fresh # 0) => d_gets[i].session = d_gets[i - 1].fresh

\* C34: when download_file returned False no file is at the output path,
\* and a later run of download_files_for_date skips the file only after a
\* call that returned True.
C34_NoFileAfterFalse ==
    /\ d_ret = "False" => d_file = "none"
    /\ dpc = "skipped" => d_ret = "True"

(***************************************************************************)
(* merge_historical_data of historical_scraper.py (lines 400-531).  The    *)
(* nine header fields the batch pass copies unchanged (bid_type through    *)
(* annual_frequency_buys) are one field, terms; the keys that only ever    *)
(* hold None are left out.                                                 *)
(***************************************************************************)
\* largest number of batch records and web rows of one historical merge
MaxHistRows == 3

\* the date the merge is for
HistDate == "2025-06-10"

\* a record of parse_bq_line: the numbers are parsed, the texts are as the
\* file writes them
HistBqRow(sol, line, nsn) ==
    [solicitation_number |-> sol, line_number |-> line, nsn_part_number |-> nsn,
     solicitation_type |-> "F", small_business_setaside |-> "Y",
     additional_clause_fillins |-> "True", return_by_date |-> "06/10/2025",
     terms |-> "T", purchase_request |-> <<"R", "1">>, unit_of_issue |-> "EA",
     quantity |-> 5, unit_price |-> 7, delivery_days |-> 9]

HistSolNumbers == {<<"A", "1">>, <<"C", "3">>}

HistLineNumbers == {<<"1">>, <<>>}

HistNsns == {<<"1", "-", "2">>, <<"P", "9">>}

\* the rows RfqRecsParser hands over: numbers and NSNs without hyphen
HistWebRows ==
    {WebRow(<<"A", "1">>, <<"1", "2">>, "full"),
     WebRow(<<"A", "1">>, <<"3", "4">>, "plain"),
     WebRow(<<"B", "2">>, <<"1", "2">>, "full"),
     WebRow(<<"B", "2">>, <<"3", "4">>, "sparse"),
     WebRow(<<>>, <<"1", "2">>, "full")}

\* parse_date of historical_scraper.py (lines 307-320)
HistParseDate(date_str) ==
    IF FalsyA(date_str) THEN NoneA
    ELSE LET formats == <<"%m/%d/%Y", "%m-%d-%Y", "%Y-%m-%d", "%m/%d/%y",
                          "%m%d%Y", "%m%d%y">>
         IN  IF \E i \in DOMAIN formats : formats[i] \in DateTable(date_str).fmts
             THEN DateTable(date_str).iso
             ELSE NoneA

\* "solicitations[sol_num] = {...}" of the batch pass (lines 408-417)
HistBatchSolicitation(sol_num) ==
    [solicitation_number |-> sol_num, solicitation_date |-> HistDate,
     scrape_date |-> HistDate, clins |-> <<>>,
     data_source |-> "bqothers", data_completeness |-> "batch_only",
     scrape_timestamp |-> "utcnow", last_updated |-> "utcnow",
     solicitation_type |-> NoneA, small_business_setaside |-> NoneA,
     additional_clause_fillins |-> NoneA, return_by_date |-> NoneA,
     terms |-> NoneA, setaside_type |-> NoneA, rfq_quote_status |-> NoneA,
     issued_date |-> NoneA, links |-> <<>>]

\* the CLIN of one batch record (lines 443-455)
HistBatchClin(record) ==
    [clin |-> IF record.line_number # <<>> THEN zfill4(record.line_number)
              ELSE NoneS,
     nsn |-> RemoveHyphens(record.nsn_part_number),
     part_number |-> record.nsn_part_number,
     nomenclature |-> NoneS,
     pr_number |-> record.purchase_request,
     quantity |-> record.quantity,
     unit_of_issue |-> record.unit_of_issue,
     unit_price |-> record.unit_price,
     delivery_days |-> record.delivery_days,
     technical_documents |-> <<>>, approved_sources |-> <<>>]

\* the batch pass at one item of batch_data (lines 406-456)
HistBatchApply(sols, sol_num, records) ==
    LET s0  == IF KeyIndex(sols, sol_num) = 0
               THEN Append(sols, HistBatchSolicitation(sol_num))
               ELSE sols
        i   == KeyIndex(s0, sol_num)
        first == records[1]
        hdr == IF records # <<>>
               THEN [s0[i] EXCEPT
                       !.solicitation_type = first.solicitation_type,
                       !.small_business_setaside = first.small_business_setaside,
                       !.additional_clause_fillins = first.additional_clause_fillins,
                       !.return_by_date = HistParseDate(first.return_by_date),
                       !.terms = first.terms]
               ELSE s0[i]
        sol == [hdr EXCEPT
                  !.clins = @ \o [j \in 1..Len(records) |-> HistBatchClin(records[j])]]
    IN  [s0 EXCEPT ![i] = sol]

\* the Solicitation made from a web row alone (lines 485-529)
HistWebSolicitation(sol_num, record) ==
    [solicitation_number |-> sol_num, solicitation_date |-> HistDate,
     scrape_date |-> NoneA,
     clins |-> << [clin |-> NoneS,
                   nsn |-> RemoveHyphens(record.nsn_part_number),
                   part_number |-> record.nsn_part_number,
                   nomenclature |-> record.nomenclature,
                   pr_number |-> NoneS,
                   quantity |-> parse_int(record.quantity),
                   unit_of_issue |-> NoneA,
                   unit_price |-> NoneInt, delivery_days |-> NoneInt,
                   technical_documents |-> <<>>, approved_sources |-> <<>>] >>,
     data_source |-> "historical_web_scrape", data_completeness |-> NoneA,
     scrape_timestamp |-> "utcnow", last_updated |-> "utcnow",
     solicitation_type |-> NoneA, small_business_setaside |-> NoneA,
     additional_clause_fillins |-> NoneA,
     return_by_date |-> HistParseDate(record.return_by),
     terms |-> NoneA, setaside_type |-> record.setaside_type,
     rfq_quote_status |-> record.rfq_quote_status,
     issued_date |-> HistParseDate(record.issued),
     links |-> << <<"solicitation_url", record.solicitation_url>>,
                  <<"package_view_url", "None">> >>]

\* the web pass at one row (lines 458-529)
HistWebApply(sols, record) ==
    LET sol_num == Strip(record.solicitation)
        i       == KeyIndex(sols, sol_num)
    IN  IF sol_num = <<>> THEN sols
        ELSE IF i # 0
        THEN LET nsn_clean == RemoveHyphens(record.nsn_part_number)
                 k == FindClin(sols[i].clins, nsn_clean)
             IN  [sols EXCEPT ![i] =
                    [@ EXCEPT
                       !.data_source = "historical_both",
                       !.setaside_type = record.setaside_type,
                       !.rfq_quote_status = record.rfq_quote_status,
                       !.issued_date = HistParseDate(record.issued),
                       !.links = << <<"solicitation_url", record.solicitation_url>>,
                                    <<"package_view_url", "None">> >>,
                       !.clins = IF k # 0
                                 THEN [@ EXCEPT ![k].nomenclature = record.nomenclature]
                                 ELSE @]]
        ELSE Append(sols, HistWebSolicitation(sol_num, record))

\* number of batch records and web rows read so far
HistRowsRead == BqCount(batch_data) + Len(hist_web_data)

HistInit ==
    /\ hmpc = "start"
    /\ batch_data = <<>>
    /\ hist_web_data = <<>>
    /\ hist_solicitations = <<>>
    /\ CrawlIdle
    /\ SessIdle
    /\ PdIdle
    /\ MergeIdle
    /\ ParseIdle
    /\ HtmlIdle
    /\ DlIdle

\* the batch pass handles the next item of batch_data: the records of one
\* solicitation number, at least one (load_historical_data, lines 271-272)
HistBatch ==
    /\ hmpc \in {"start", "batch"}
    /\ HistRowsRead < MaxHistRows
    /\ \E sol \in HistSolNumbers, n \in 1..(MaxHistRows - HistRowsRead) :
         \E lines \in [1..n -> HistLineNumbers], nsns \in [1..n -> HistNsns] :
           LET records == [j \in 1..n |-> HistBqRow(sol, lines[j], nsns[j])]
           IN  /\ \A g \in DOMAIN batch_data : batch_data[g].key # sol
               /\ batch_data' = Append(batch_data, [key |-> sol, records |-> records])
               /\ hist_solicitations' = HistBatchApply(hist_solicitations, sol, records)
    /\ hmpc' = "batch"
    /\ UNCHANGED hist_web_data
    /\ UNCHANGED nonHist

\* the web pass handles the next row of web_data
HistWeb ==
    /\ hmpc \in {"start", "batch", "web"}
    /\ HistRowsRead < MaxHistRows
    /\ \E record \in HistWebRows :
         /\ hist_web_data' = Append(hist_web_data, record)
         /\ hist_solicitations' = HistWebApply(hist_solicitations, record)
    /\ hmpc' = "web"
    /\ UNCHANGED batch_data
    /\ UNCHANGED nonHist

\* "return list(solicitations.values())"
HistReturn ==
    /\ hmpc \in {"start", "batch", "web"}
    /\ hmpc' = "done"
    /\ UNCHANGED <<batch_data, hist_web_data, hist_solicitations>>
    /\ UNCHANGED nonHist

HistNext ==
    \/ HistBatch
    \/ HistWeb
    \/ HistReturn

SpecHistMerge == HistInit /\ [][HistNext]_vars

\* the records of the items of items stored under the key num
RECURSIVE BqRowsOf0(_, _)
BqRowsOf0(items, num) ==
    IF items = <<>> THEN <<>>
    ELSE (IF Head(items).key = num THEN Head(items).records ELSE <<>>)
         \o BqRowsOf0(Tail(items), num)

\* the batch records and the web rows of the Solicitation numbered num
HistBatchRowsOf(num) == BqRowsOf0(batch_data, num)

HistWebRowsOf(num) ==
    {h \in DOMAIN hist_web_data : Strip(hist_web_data[h].solicitation) = num}

\* the NSN of a web row is the NSN of a CLIN of its Solicitation
HistRowRepresented(record) ==
    \E j \in DOMAIN hist_solicitations :
       /\ hist_solicitations[j].solicitation_number = Strip(record.solicitation)
       /\ \E k \in DOMAIN hist_solicitations[j].clins :
             hist_solicitations[j].clins[k].nsn = RemoveHyphens(record.nsn_part_number)

\* C38: in merge_historical_data a Solicitation is tagged 'historical_both'
\* only if it has both batch records and web rows, and the NSN of every web
\* row (with a solicitation number) is the NSN of a CLIN of its Solicitation
\* in the result: no web row is silently dropped.
C38_BothMeansBothAndNoRowDropped ==
    hmpc = "done" =>
       /\ \A j \in DOMAIN hist_solicitations :
             hist_solicitations[j].data_source = "historical_both" =>
                /\ HistBatchRowsOf(hist_solicitations[j].solicitation_number) # <<>>
                /\ HistWebRowsOf(hist_solicitations[j].solicitation_number) # {}
       /\ \A h \in DOMAIN hist_web_data :
             Strip(hist_web_data[h].solicitation) # <<>> =>
                HistRowRepresented(hist_web_data[h])

====
